---- MODULE Spec2Model ----
(***************************************************************************)
(* A model of the menu acquisition pipeline of rwth-fressbot:              *)
(*   - HtmlMenuFetcherWithCache (src/src/domain/fetch/cache.rs): an LRU    *)
(*     store of CacheEntry<Menu> keyed by (Canteen, NaiveDate) behind one  *)
(*     std::sync::Mutex, used by concurrent callers;                       *)
(*   - HtmlMenuFetcher::fetch_daily_menu (html_fetcher.rs): the selection  *)
(*     of the day-section of a document.                                   *)
(***************************************************************************)
EXTENDS Integers, Sequences, FiniteSets, TLC

\* ------------------------------------------------------------------ bounds
MaxTime == 601         \* the clock stops advancing here
MaxSections == 2       \* day-sections of a document
MaxRows == 3           \* rows of the two tables of a menu container, in all

\* -------------------------------------------------------- program constants
DEFAULT_CACHE_SIZE == 16
cache_fresh_dur == 10 * 60

\* The capacity handed to LruCache::new
Capacity == DEFAULT_CACHE_SIZE

\* The concurrent callers of fetch_daily_menu (tasks of the host runtime).
Callers == {1, 2}
\* The (Canteen, NaiveDate) keys the callers ask for: one day of two canteens.
Keys == {<<"Academica", 1>>, <<"Vita", 1>>}
\* Keys that calls made before the first step asked for and that no caller
\* asks for again: later days of the first canteen, one fewer than the store
\* holds.
OtherKeys == {<<"Academica", d>> : d \in 2..Capacity}
AllKeys == Keys \cup OtherKeys
\* The Menus the fetcher returns, and the Menu it returned to those calls.
Menus == {"m1", "m2"}
EarlierMenu == "m0"
\* What HtmlMenuFetcher::fetch_daily_menu can fail with: a transport error
\* (reqwest, through `?`), one of the two FetcherErrors, or one of the
\* anyhow! errors of parse_menu_dish and parse_extras_table.
FetchErrors ==
    {"Transport", "CanteenClosed", "ElementNotFound",
     "anyhow:No span with class \"menue-category\"",
     "anyhow:.menu-category contains no text node",
     "anyhow:No span with class \"menue-descr\"",
     "anyhow:No span with class \"menue-desc\""}
\* Instant::now() moves by these amounts between two steps: a whole freshness
\* window, or one second more.
TickSteps == {cache_fresh_dur, cache_fresh_dur + 1}

None == "none"
NoEntry == [val |-> None, created |-> -1, fresh_dur |-> 0]
NoResult == [ok |-> FALSE, val |-> None]
NoKey == <<"none", 0>>
Ok(m) == [ok |-> TRUE, val |-> m]
Err(e) == [ok |-> FALSE, val |-> e]

VARIABLES
    cache,       \* the LruCache: a sequence of [key, entry], most recently used first
    poisoned,    \* the Mutex's poison flag
    lockHolder,  \* the caller holding the MutexGuard, 0 when the Mutex is free
    now,         \* std::time::Instant::now(), in seconds
    pc,          \* each caller's position in fetch_daily_menu / fetch_and_insert
    key,         \* each caller's arguments (canteen, day)
    res,         \* each caller's result of self.fetcher.fetch_daily_menu(..).await
    menu,        \* each caller's local `menu` of fetch_and_insert
    result,      \* what each caller's fetch_daily_menu returned
    fetches,     \* history: fetches made by each caller's current call
    seen,        \* history: `created` of the stale entry each caller's lookup found, else -1
    recent,      \* history: the keys ever found or put in the store, latest use first
    lastOk,      \* history: per key, the entry served by the latest successful call
    page,        \* HtmlMenuFetcher: the document the site serves
    want,        \* HtmlMenuFetcher: the arguments [day, canteen] of fetch_daily_menu
    out,         \* HtmlMenuFetcher: what fetch_daily_menu returned
    hpc,         \* HtmlMenuFetcher: "off", "start", "done" (document parsed) or "failed" (transport)
    fed,         \* Menu::fmt_html: the (category, Dish) pairs the Menu was built from, in row order
    shown,       \* Menu::fmt_html: the Menu being rendered
    html,        \* Menu::fmt_html: the String it returned
    rpc,         \* Menu::fmt_html: "off", "start" or "done"
    cmd,         \* Command::parse: its arguments [input, bot_username]
    parsed,      \* Command::parse: what it returned
    cpc,         \* Command::parse: "off", "start" or "done"
    today,       \* chrono::Local::now().date_naive(), in days since a Monday
    dialogue,    \* the InMemStorage<DialogueState>: per chat, Some(state) or nothing
    incoming,    \* per chat, the update its handler is working on and how far it has come
    handled,     \* history: per chat, the update its handler ended last and what came of it
    nextId,      \* the MessageId the next incoming message gets
    conv         \* DayOfWeek -> NaiveDate: the conversion's argument, clock reads and result

cacheVars == <<cache, poisoned, lockHolder, now, pc, key, res, menu, result,
               fetches, seen, recent, lastOk>>

fetchVars == <<page, want, out, hpc>>

renderVars == <<fed, shown, html, rpc>>

cmdVars == <<cmd, parsed, cpc>>

tgVars == <<today, dialogue, incoming, handled, nextId, conv>>

vars == <<cacheVars, fetchVars, renderVars, cmdVars, tgVars>>

\* ------------------------------------------------------------- CacheEntry
\* Mutant: the window's last second is treated as stale.
is_fresh_strict(e, t) == t - e.created < e.fresh_dur

\* self.created.elapsed() <= self.fresh_dur
is_fresh(e, t) == t - e.created <= e.fresh_dur

is_stale(e, t) == ~is_fresh(e, t)

get_val(e) == e.val

\* Mutant: the entry is stamped with the time the program started.
NewEntryUnstamped(m, t) == [val |-> m, created |-> 0, fresh_dur |-> cache_fresh_dur]

\* CacheEntry { val: menu.clone(), created: Instant::now(), fresh_dur }
NewEntry(m, t) == [val |-> m, created |-> t, fresh_dur |-> cache_fresh_dur]

\* --------------------------------------------------------------- LruCache
KeysOf(s) == {s[i].key : i \in 1..Len(s)}

IndexOf(s, k) == CHOOSE i \in 1..Len(s) : s[i].key = k

Without(s, i) == SubSeq(s, 1, i - 1) \o SubSeq(s, i + 1, Len(s))

EntryOf(s, k) == s[IndexOf(s, k)].entry

\* Mutant: a lookup that does not touch the recency order (LruCache::peek).
LruPeek(s, k) == s

\* LruCache::get: the store after the call (a found key becomes most recently used).
LruGet(s, k) ==
    IF k \in KeysOf(s)
    THEN <<s[IndexOf(s, k)]>> \o Without(s, IndexOf(s, k))
    ELSE s

\* Mutant: a put that keeps the entry a key already has.
LruPutIfAbsent(s, k, e, cap) ==
    IF k \in KeysOf(s)
    THEN <<s[IndexOf(s, k)]>> \o Without(s, IndexOf(s, k))
    ELSE IF Len(s) >= cap
         THEN <<[key |-> k, entry |-> e]>> \o SubSeq(s, 1, Len(s) - 1)
         ELSE <<[key |-> k, entry |-> e]>> \o s

\* Mutant: a put that evicts only once the store is over its capacity.
LruPutOverfull(s, k, e, cap) ==
    IF k \in KeysOf(s)
    THEN <<[key |-> k, entry |-> e]>> \o Without(s, IndexOf(s, k))
    ELSE IF Len(s) > cap
         THEN <<[key |-> k, entry |-> e]>> \o SubSeq(s, 1, Len(s) - 1)
         ELSE <<[key |-> k, entry |-> e]>> \o s

\* Mutant: a put that evicts before the store is full.
LruPutEarly(s, k, e, cap) ==
    IF k \in KeysOf(s)
    THEN <<[key |-> k, entry |-> e]>> \o Without(s, IndexOf(s, k))
    ELSE IF Len(s) + 1 >= cap
         THEN <<[key |-> k, entry |-> e]>> \o SubSeq(s, 1, Len(s) - 1)
         ELSE <<[key |-> k, entry |-> e]>> \o s

\* LruCache::put: replace the key's entry, or insert it, evicting the least
\* recently used key when the store is full; the key becomes most recently used.
LruPut(s, k, e, cap) ==
    IF k \in KeysOf(s)
    THEN <<[key |-> k, entry |-> e]>> \o Without(s, IndexOf(s, k))
    ELSE IF Len(s) >= cap
         THEN <<[key |-> k, entry |-> e]>> \o SubSeq(s, 1, Len(s) - 1)
         ELSE <<[key |-> k, entry |-> e]>> \o s

\* ------------------------------------------------------------------ Mutex
\* Mutant: a lock that does not exclude other callers.
MutexAlwaysFree == TRUE

\* self.cache.lock() returns once no other caller holds the guard.
MutexFree == lockHolder = 0

\* Mutant: the poison flag is ignored (PoisonError::into_inner).
LockIgnoresPoison == TRUE

\* .lock().map_err(..).ok(): Some(guard) unless the Mutex is poisoned.
LockOk == ~poisoned

\* ---------------------------------------------------------------- `?`
\* Mutant: the fetcher's error is replaced by one of the cache layer.
PropagateWrapped(r) == Err("CacheError")

\* The `?` applied to an Err: the same error is the function's result.
Propagate(r) == r

\* ---------------------------------------------------------------- history
Touch(r, k) == <<k>> \o SelectSeq(r, LAMBDA x : x # k)

\* ------------------------------------------------------------------- Init
\* No call is under way, the Mutex is free and sound, the clock is at 0.
InitCallers ==
    /\ poisoned = FALSE
    /\ lockHolder = 0
    /\ now = 0
    /\ pc = [c \in Callers |-> "idle"]
    /\ key = [c \in Callers |-> NoKey]
    /\ res = [c \in Callers |-> NoResult]
    /\ menu = [c \in Callers |-> None]
    /\ result = [c \in Callers |-> NoResult]
    /\ fetches = [c \in Callers |-> 0]
    /\ seen = [c \in Callers |-> -1]

\* The store after successful calls for the keys ks, the last of ks first,
\* all made at time 0: cache.put for each, from LruCache::new on.
StoreLeftBy(ks) ==
    /\ cache = [i \in 1..Len(ks) |-> [key |-> ks[i], entry |-> NewEntry(EarlierMenu, 0)]]
    /\ recent = ks
    /\ lastOk = [k \in AllKeys |->
                   IF \E i \in 1..Len(ks) : ks[i] = k
                   THEN NewEntry(EarlierMenu, 0)
                   ELSE NoEntry]

\* HtmlMenuFetcherWithCache::new(): the store is empty.
InitCache == InitCallers /\ StoreLeftBy(<<>>)

\* Calls for the days 1 to size of Academica in turn: (Academica, 1) is the
\* least recently used key, (Academica, 2) the one after it.
FilledBy(size) == [i \in 1..size |-> <<"Academica", size + 1 - i>>]

\* Fifteen earlier calls: the store has one free slot.
InitCacheOneFree == InitCallers /\ StoreLeftBy(FilledBy(Capacity - 1))

\* Sixteen earlier calls: the store is full.
InitCacheFull == InitCallers /\ StoreLeftBy(FilledBy(Capacity))

\* No call of HtmlMenuFetcherWithCache is under way, its store is empty
\* and stays so.
CacheOff == InitCallers /\ StoreLeftBy(<<>>)

\* No request to HtmlMenuFetcher is modelled on its own.
FetchOff ==
    /\ page = <<>>
    /\ want = [day |-> [y |-> 0, m |-> 0, d |-> 0], canteen |-> None]
    /\ out = [tag |-> None]
    /\ hpc = "off"

\* Nothing is being rendered.
RenderOff ==
    /\ fed = <<>>
    /\ shown = [dishes |-> <<>>, extras |-> <<>>]
    /\ html = <<>>
    /\ rpc = "off"

\* No command is being parsed.
CmdOff ==
    /\ cmd = None
    /\ parsed = [tag |-> None]
    /\ cpc = "off"

\* The chats that write to the bot.
Chats == {1, 2}

\* No update is being handled and no DayOfWeek converted.
TgOff ==
    /\ today = 0
    /\ dialogue = [c \in Chats |-> [some |-> FALSE]]
    /\ incoming = [c \in Chats |-> [pc |-> "idle"]]
    /\ handled = [c \in Chats |-> [endpoint |-> None]]
    /\ nextId = 1
    /\ conv = [pc |-> "off"]

Init == (InitCache \/ InitCacheOneFree \/ InitCacheFull) /\ FetchOff /\ RenderOff /\ CmdOff /\ TgOff

\* ---------------------------------------------------------------- actions
\* A caller enters fetch_daily_menu(day, canteen).
Call(c) ==
    /\ pc[c] = "idle"
    /\ \E k \in Keys : key' = [key EXCEPT ![c] = k]
    /\ pc' = [pc EXCEPT ![c] = "lookup_lock"]
    /\ UNCHANGED <<cache, poisoned, lockHolder, now, res, menu, result,
                   fetches, seen, recent, lastOk>>
    /\ UNCHANGED <<fetchVars, renderVars, cmdVars, tgVars>>

\* self.cache.lock().map_err(..).ok() of fetch_daily_menu: the guard, or None
\* (and then cached_result is None) when the Mutex is poisoned.
LookupLock(c) ==
    /\ pc[c] = "lookup_lock"
    /\ MutexFree
    /\ IF LockOk
       THEN /\ lockHolder' = c
            /\ pc' = [pc EXCEPT ![c] = "lookup"]
       ELSE /\ lockHolder' = lockHolder
            /\ pc' = [pc EXCEPT ![c] = "fetch"]
    /\ UNCHANGED <<cache, poisoned, now, key, res, menu, result,
                   fetches, seen, recent, lastOk>>
    /\ UNCHANGED <<fetchVars, renderVars, cmdVars, tgVars>>

\* The and_then closure of fetch_daily_menu, run holding the guard: cache.get,
\* then Some(menu) for a fresh entry and None for a stale or a missing one.
Lookup(c) ==
    /\ pc[c] = "lookup"
    /\ lockHolder = c
    /\ cache' = LruGet(cache, key[c])
    /\ lockHolder' = 0
    /\ IF key[c] \in KeysOf(cache)
       THEN LET e == EntryOf(cache, key[c]) IN
            /\ recent' = Touch(recent, key[c])
            /\ IF is_stale(e, now)
               THEN /\ pc' = [pc EXCEPT ![c] = "fetch"]
                    /\ seen' = [seen EXCEPT ![c] = e.created]
                    /\ UNCHANGED <<result, lastOk>>
               ELSE /\ pc' = [pc EXCEPT ![c] = "done"]
                    /\ result' = [result EXCEPT ![c] = Ok(get_val(e))]
                    /\ lastOk' = [lastOk EXCEPT ![key[c]] = e]
                    /\ seen' = seen
       ELSE /\ pc' = [pc EXCEPT ![c] = "fetch"]
            /\ UNCHANGED <<result, seen, recent, lastOk>>
    /\ UNCHANGED <<poisoned, now, key, res, menu, fetches>>
    /\ UNCHANGED <<fetchVars, renderVars, cmdVars, tgVars>>

\* self.fetcher.fetch_daily_menu(day, canteen).await completes, with a Menu
\* or an error; no guard is held.
FetchAwait(c) ==
    /\ pc[c] = "fetch"
    /\ \E r \in {Ok(m) : m \in Menus} \cup {Err(e) : e \in FetchErrors} :
           res' = [res EXCEPT ![c] = r]
    /\ fetches' = [fetches EXCEPT ![c] = @ + 1]
    /\ pc' = [pc EXCEPT ![c] = "try"]
    /\ UNCHANGED <<cache, poisoned, lockHolder, now, key, menu, result,
                   seen, recent, lastOk>>
    /\ UNCHANGED <<fetchVars, renderVars, cmdVars, tgVars>>

\* self.fetcher.fetch_daily_menu(day, canteen).await unwinds (the unwrap of
\* parse_menu_dish): the caller's task unwinds with it. No guard is held, so
\* the Mutex stays sound and the store as it was.
FetchUnwinds(c) ==
    /\ pc[c] = "fetch"
    /\ fetches' = [fetches EXCEPT ![c] = @ + 1]
    /\ pc' = [pc EXCEPT ![c] = "panicked"]
    /\ UNCHANGED <<cache, poisoned, lockHolder, now, key, res, menu, result,
                   seen, recent, lastOk>>
    /\ UNCHANGED <<fetchVars, renderVars, cmdVars, tgVars>>

\* The `?` of `let menu = ...await?`: an error is returned as it is.
Try(c) ==
    /\ pc[c] = "try"
    /\ IF res[c].ok
       THEN /\ menu' = [menu EXCEPT ![c] = res[c].val]
            /\ pc' = [pc EXCEPT ![c] = "insert_lock"]
            /\ result' = result
       ELSE /\ result' = [result EXCEPT ![c] = Propagate(res[c])]
            /\ pc' = [pc EXCEPT ![c] = "done"]
            /\ menu' = menu
    /\ UNCHANGED <<cache, poisoned, lockHolder, now, key, res,
                   fetches, seen, recent, lastOk>>
    /\ UNCHANGED <<fetchVars, renderVars, cmdVars, tgVars>>

\* self.cache.lock().map_err(..).ok() of fetch_and_insert: with a poisoned
\* Mutex nothing is stored and Ok(menu) is returned.
InsertLock(c) ==
    /\ pc[c] = "insert_lock"
    /\ MutexFree
    /\ IF LockOk
       THEN /\ lockHolder' = c
            /\ pc' = [pc EXCEPT ![c] = "insert"]
            /\ result' = result
       ELSE /\ lockHolder' = lockHolder
            /\ pc' = [pc EXCEPT ![c] = "done"]
            /\ result' = [result EXCEPT ![c] = Ok(menu[c])]
    /\ UNCHANGED <<cache, poisoned, now, key, res, menu,
                   fetches, seen, recent, lastOk>>
    /\ UNCHANGED <<fetchVars, renderVars, cmdVars, tgVars>>

\* The and_then closure of fetch_and_insert, run holding the guard:
\* cache.put((canteen, day), CacheEntry{menu, Instant::now(), fresh_dur}),
\* then Ok(menu).
Insert(c) ==
    /\ pc[c] = "insert"
    /\ lockHolder = c
    /\ cache' = LruPut(cache, key[c], NewEntry(menu[c], now), Capacity)
    /\ lockHolder' = 0
    /\ result' = [result EXCEPT ![c] = Ok(menu[c])]
    /\ pc' = [pc EXCEPT ![c] = "done"]
    /\ recent' = Touch(recent, key[c])
    /\ lastOk' = [lastOk EXCEPT ![key[c]] = NewEntry(menu[c], now)]
    /\ UNCHANGED <<poisoned, now, key, res, menu, fetches, seen>>
    /\ UNCHANGED <<fetchVars, renderVars, cmdVars, tgVars>>

\* The caller has its result; its slot is free for the next call.
Return(c) ==
    /\ pc[c] \in {"done", "panicked"}
    /\ pc' = [pc EXCEPT ![c] = "idle"]
    /\ key' = [key EXCEPT ![c] = NoKey]
    /\ res' = [res EXCEPT ![c] = NoResult]
    /\ menu' = [menu EXCEPT ![c] = None]
    /\ result' = [result EXCEPT ![c] = NoResult]
    /\ fetches' = [fetches EXCEPT ![c] = 0]
    /\ seen' = [seen EXCEPT ![c] = -1]
    /\ UNCHANGED <<cache, poisoned, lockHolder, now, recent, lastOk>>
    /\ UNCHANGED <<fetchVars, renderVars, cmdVars, tgVars>>

\* Time passes.
Tick ==
    /\ \E d \in TickSteps :
           /\ now + d <= MaxTime
           /\ now' = now + d
    /\ UNCHANGED <<cache, poisoned, lockHolder, pc, key, res, menu, result,
                   fetches, seen, recent, lastOk>>
    /\ UNCHANGED <<fetchVars, renderVars, cmdVars, tgVars>>

\* A panic while the guard is held in the lookup closure (its log::info!
\* calls run under the guard, after cache.get): the task dies, the guard is
\* dropped during unwinding and the Mutex is poisoned from then on.
Panic(c) ==
    /\ pc[c] = "lookup"
    /\ lockHolder = c
    /\ key[c] \in KeysOf(cache)
    /\ cache' = LruGet(cache, key[c])
    /\ recent' = Touch(recent, key[c])
    /\ poisoned' = TRUE
    /\ lockHolder' = 0
    /\ pc' = [pc EXCEPT ![c] = "panicked"]
    /\ UNCHANGED <<now, key, res, menu, result, fetches, seen, lastOk>>
    /\ UNCHANGED <<fetchVars, renderVars, cmdVars, tgVars>>

Next ==
    \/ \E c \in Callers : Call(c)
    \/ \E c \in Callers : LookupLock(c)
    \/ \E c \in Callers : Lookup(c)
    \/ \E c \in Callers : FetchAwait(c)
    \/ \E c \in Callers : FetchUnwinds(c)
    \/ \E c \in Callers : Try(c)
    \/ \E c \in Callers : InsertLock(c)
    \/ \E c \in Callers : Insert(c)
    \/ \E c \in Callers : Return(c)
    \/ Tick

Spec == Init /\ [][Next]_vars

NextPoison ==
    \/ Next
    \/ \E c \in Callers : Panic(c)

SpecPoison == Init /\ [][NextPoison]_vars

\* ====================================================== HtmlMenuFetcher
\* Text is a sequence of one-character strings. Option<T> is [some |-> FALSE]
\* or [some |-> TRUE, val |-> v]; a Result is XOk(v) or XErr(e); XPanic is a
\* call that unwound instead of returning.
Some(v) == [some |-> TRUE, val |-> v]
NoneOpt == [some |-> FALSE]
XOk(v) == [tag |-> "Ok", val |-> v]
XErr(e) == [tag |-> "Err", error |-> e]
XPanic == [tag |-> "Panic"]
Anyhow(msg) == [kind |-> "anyhow", msg |-> msg]
\* FetcherError::CanteenClosed { canteen, date }
CanteenClosed(c, d) == [kind |-> "CanteenClosed", canteen |-> c, date |-> d]
\* FetcherError::ElementNotFound { tag, cls }
ElementNotFound(t, cls) == [kind |-> "ElementNotFound", tag |-> t, cls |-> cls]

\* ------------------------------------------------------------ str helpers
\* A text is a sequence of characters. A character up to U+00FF is the
\* one-character string holding it; a character beyond is named by its code
\* point, as in "U+2003", and is one character of the text all the same.
HexDigits == "0123456789ABCDEF"

HexVal(d) == (CHOOSE i \in 1..16 : SubSeq(HexDigits, i, i) = d) - 1

\* The number a code-point name spells in its first n characters.
RECURSIVE HexNumber(_, _)
HexNumber(name, n) ==
    IF n <= 2 THEN 0 ELSE 16 * HexNumber(name, n - 1) + HexVal(SubSeq(name, n, n))

\* The characters U+0080 to U+00FF, in one text
Latin1SupplementText ==
    " ¡¢£¤¥¦§¨©ª«¬­®¯°±²³´µ¶·¸¹º»¼½¾¿" \o
    "ÀÁÂÃÄÅÆÇÈÉÊËÌÍÎÏÐÑÒÓÔÕÖ×ØÙÚÛÜÝÞßàáâãäåæçèéêëìíîïðñòóôõö÷øùúûüýþÿ"

Latin1Supplement == {SubSeq(Latin1SupplementText, i, i) : i \in 1..Len(Latin1SupplementText)}

\* A table of characters is a text of fields of 7 characters, each holding
\* one character and blanks after it.
FieldChar(f) ==
    IF SubSeq(f, 2, 2) = " " THEN SubSeq(f, 1, 1)
    ELSE IF SubSeq(f, 7, 7) = " " THEN SubSeq(f, 1, 6)
    ELSE f

\* The characters of a table, in its order
Fields(text) ==
    [i \in 1..(Len(text) \div 7) |->
        FieldChar(SubSeq(text, 7 * (i - 1) + 1, 7 * i))]

\* char::len_utf8
len_utf8(c) ==
    IF Len(c) = 1 THEN (IF c \in Latin1Supplement THEN 2 ELSE 1)
    ELSE IF HexNumber(c, Len(c)) < 128 THEN 1
    ELSE IF HexNumber(c, Len(c)) < 2048 THEN 2
    ELSE IF HexNumber(c, Len(c)) < 65536 THEN 3
    ELSE 4

\* str::len: the length in bytes
RECURSIVE str_len(_)
str_len(s) == IF s = <<>> THEN 0 ELSE len_utf8(Head(s)) + str_len(Tail(s))

\* char::is_ascii_whitespace: space, tab, line feed, form feed, carriage return
AsciiWhitespace == {" ", "\t", "\n", "\f", "\r"}

\* char::is_whitespace: the characters with the property White_Space
Whitespace ==
    { "\t", "\n", "", "\f", "\r", " ", "", " ", "U+1680", "U+2000", "U+2001", "U+2002",
      "U+2003", "U+2004", "U+2005", "U+2006", "U+2007", "U+2008", "U+2009", "U+200A", "U+2028",
      "U+2029", "U+202F", "U+205F", "U+3000" }

\* str::trim_start: drops the leading characters that are whitespace
RECURSIVE TrimStart(_)
TrimStart(s) ==
    IF s # <<>> /\ Head(s) \in Whitespace THEN TrimStart(Tail(s)) ELSE s

\* str::trim_end: drops the trailing characters that are whitespace
RECURSIVE TrimEnd(_)
TrimEnd(s) ==
    IF s # <<>> /\ s[Len(s)] \in Whitespace
    THEN TrimEnd(SubSeq(s, 1, Len(s) - 1))
    ELSE s

\* str::trim
Trim(s) == TrimEnd(TrimStart(s))

\* str::split(ch): the pieces between the separators, empty ones included;
\* always at least one piece.
RECURSIVE SplitFrom(_, _, _, _)
SplitFrom(s, ch, i, cur) ==
    IF i > Len(s) THEN <<cur>>
    ELSE IF s[i] = ch THEN <<cur>> \o SplitFrom(s, ch, i + 1, <<>>)
    ELSE SplitFrom(s, ch, i + 1, Append(cur, s[i]))

Split(s, ch) == SplitFrom(s, ch, 1, <<>>)

\* str::split_ascii_whitespace: the non-empty runs of non-whitespace.
RECURSIVE WordsFrom(_, _, _)
WordsFrom(s, i, cur) ==
    IF i > Len(s) THEN (IF cur = <<>> THEN <<>> ELSE <<cur>>)
    ELSE IF s[i] \in AsciiWhitespace
         THEN (IF cur = <<>> THEN <<>> ELSE <<cur>>) \o WordsFrom(s, i + 1, <<>>)
         ELSE WordsFrom(s, i + 1, Append(cur, s[i]))

SplitAsciiWhitespace(s) == WordsFrom(s, 1, <<>>)

\* Iterator<Item = &str>::collect::<String>() and [String]::join(sep)
RECURSIVE Join(_, _)
Join(parts, sep) ==
    IF parts = <<>> THEN <<>>
    ELSE IF Len(parts) = 1 THEN parts[1]
    ELSE parts[1] \o sep \o Join(Tail(parts), sep)

Concat(parts) == Join(parts, <<>>)

MapTrim(parts) == [i \in 1..Len(parts) |-> Trim(parts[i])]

\* ------------------------------------------------- dates in section titles
\* The characters 0 to 9
AsciiDigits == {"0", "1", "2", "3", "4", "5", "6", "7", "8", "9"}

\* The decimal digits (general category Nd) beyond U+0039, as a table
OtherDigitsText ==
    "U+0660 U+0661 U+0662 U+0663 U+0664 U+0665 U+0666 U+0667 U+0668 U+0669 U+06F0 U+06F1 U+06F2 U+06F3 U+06F4 U+06F5 U+06F6 U+06F7 U+06F8 U+06F9 " \o
    "U+07C0 U+07C1 U+07C2 U+07C3 U+07C4 U+07C5 U+07C6 U+07C7 U+07C8 U+07C9 U+0966 U+0967 U+0968 U+0969 U+096A U+096B U+096C U+096D U+096E U+096F " \o
    "U+09E6 U+09E7 U+09E8 U+09E9 U+09EA U+09EB U+09EC U+09ED U+09EE U+09EF U+0A66 U+0A67 U+0A68 U+0A69 U+0A6A U+0A6B U+0A6C U+0A6D U+0A6E U+0A6F " \o
    "U+0AE6 U+0AE7 U+0AE8 U+0AE9 U+0AEA U+0AEB U+0AEC U+0AED U+0AEE U+0AEF U+0B66 U+0B67 U+0B68 U+0B69 U+0B6A U+0B6B U+0B6C U+0B6D U+0B6E U+0B6F " \o
    "U+0BE6 U+0BE7 U+0BE8 U+0BE9 U+0BEA U+0BEB U+0BEC U+0BED U+0BEE U+0BEF U+0C66 U+0C67 U+0C68 U+0C69 U+0C6A U+0C6B U+0C6C U+0C6D U+0C6E U+0C6F " \o
    "U+0CE6 U+0CE7 U+0CE8 U+0CE9 U+0CEA U+0CEB U+0CEC U+0CED U+0CEE U+0CEF U+0D66 U+0D67 U+0D68 U+0D69 U+0D6A U+0D6B U+0D6C U+0D6D U+0D6E U+0D6F " \o
    "U+0DE6 U+0DE7 U+0DE8 U+0DE9 U+0DEA U+0DEB U+0DEC U+0DED U+0DEE U+0DEF U+0E50 U+0E51 U+0E52 U+0E53 U+0E54 U+0E55 U+0E56 U+0E57 U+0E58 U+0E59 " \o
    "U+0ED0 U+0ED1 U+0ED2 U+0ED3 U+0ED4 U+0ED5 U+0ED6 U+0ED7 U+0ED8 U+0ED9 U+0F20 U+0F21 U+0F22 U+0F23 U+0F24 U+0F25 U+0F26 U+0F27 U+0F28 U+0F29 " \o
    "U+1040 U+1041 U+1042 U+1043 U+1044 U+1045 U+1046 U+1047 U+1048 U+1049 U+1090 U+1091 U+1092 U+1093 U+1094 U+1095 U+1096 U+1097 U+1098 U+1099 " \o
    "U+17E0 U+17E1 U+17E2 U+17E3 U+17E4 U+17E5 U+17E6 U+17E7 U+17E8 U+17E9 U+1810 U+1811 U+1812 U+1813 U+1814 U+1815 U+1816 U+1817 U+1818 U+1819 " \o
    "U+1946 U+1947 U+1948 U+1949 U+194A U+194B U+194C U+194D U+194E U+194F U+19D0 U+19D1 U+19D2 U+19D3 U+19D4 U+19D5 U+19D6 U+19D7 U+19D8 U+19D9 " \o
    "U+1A80 U+1A81 U+1A82 U+1A83 U+1A84 U+1A85 U+1A86 U+1A87 U+1A88 U+1A89 U+1A90 U+1A91 U+1A92 U+1A93 U+1A94 U+1A95 U+1A96 U+1A97 U+1A98 U+1A99 " \o
    "U+1B50 U+1B51 U+1B52 U+1B53 U+1B54 U+1B55 U+1B56 U+1B57 U+1B58 U+1B59 U+1BB0 U+1BB1 U+1BB2 U+1BB3 U+1BB4 U+1BB5 U+1BB6 U+1BB7 U+1BB8 U+1BB9 " \o
    "U+1C40 U+1C41 U+1C42 U+1C43 U+1C44 U+1C45 U+1C46 U+1C47 U+1C48 U+1C49 U+1C50 U+1C51 U+1C52 U+1C53 U+1C54 U+1C55 U+1C56 U+1C57 U+1C58 U+1C59 " \o
    "U+A620 U+A621 U+A622 U+A623 U+A624 U+A625 U+A626 U+A627 U+A628 U+A629 U+A8D0 U+A8D1 U+A8D2 U+A8D3 U+A8D4 U+A8D5 U+A8D6 U+A8D7 U+A8D8 U+A8D9 " \o
    "U+A900 U+A901 U+A902 U+A903 U+A904 U+A905 U+A906 U+A907 U+A908 U+A909 U+A9D0 U+A9D1 U+A9D2 U+A9D3 U+A9D4 U+A9D5 U+A9D6 U+A9D7 U+A9D8 U+A9D9 " \o
    "U+A9F0 U+A9F1 U+A9F2 U+A9F3 U+A9F4 U+A9F5 U+A9F6 U+A9F7 U+A9F8 U+A9F9 U+AA50 U+AA51 U+AA52 U+AA53 U+AA54 U+AA55 U+AA56 U+AA57 U+AA58 U+AA59 " \o
    "U+ABF0 U+ABF1 U+ABF2 U+ABF3 U+ABF4 U+ABF5 U+ABF6 U+ABF7 U+ABF8 U+ABF9 U+FF10 U+FF11 U+FF12 U+FF13 U+FF14 U+FF15 U+FF16 U+FF17 U+FF18 U+FF19 " \o
    "U+104A0U+104A1U+104A2U+104A3U+104A4U+104A5U+104A6U+104A7U+104A8U+104A9U+10D30U+10D31U+10D32U+10D33U+10D34U+10D35U+10D36U+10D37U+10D38U+10D39" \o
    "U+10D40U+10D41U+10D42U+10D43U+10D44U+10D45U+10D46U+10D47U+10D48U+10D49U+11066U+11067U+11068U+11069U+1106AU+1106BU+1106CU+1106DU+1106EU+1106F" \o
    "U+110F0U+110F1U+110F2U+110F3U+110F4U+110F5U+110F6U+110F7U+110F8U+110F9U+11136U+11137U+11138U+11139U+1113AU+1113BU+1113CU+1113DU+1113EU+1113F" \o
    "U+111D0U+111D1U+111D2U+111D3U+111D4U+111D5U+111D6U+111D7U+111D8U+111D9U+112F0U+112F1U+112F2U+112F3U+112F4U+112F5U+112F6U+112F7U+112F8U+112F9" \o
    "U+11450U+11451U+11452U+11453U+11454U+11455U+11456U+11457U+11458U+11459U+114D0U+114D1U+114D2U+114D3U+114D4U+114D5U+114D6U+114D7U+114D8U+114D9" \o
    "U+11650U+11651U+11652U+11653U+11654U+11655U+11656U+11657U+11658U+11659U+116C0U+116C1U+116C2U+116C3U+116C4U+116C5U+116C6U+116C7U+116C8U+116C9" \o
    "U+116D0U+116D1U+116D2U+116D3U+116D4U+116D5U+116D6U+116D7U+116D8U+116D9U+116DAU+116DBU+116DCU+116DDU+116DEU+116DFU+116E0U+116E1U+116E2U+116E3" \o
    "U+11730U+11731U+11732U+11733U+11734U+11735U+11736U+11737U+11738U+11739U+118E0U+118E1U+118E2U+118E3U+118E4U+118E5U+118E6U+118E7U+118E8U+118E9" \o
    "U+11950U+11951U+11952U+11953U+11954U+11955U+11956U+11957U+11958U+11959U+11BF0U+11BF1U+11BF2U+11BF3U+11BF4U+11BF5U+11BF6U+11BF7U+11BF8U+11BF9" \o
    "U+11C50U+11C51U+11C52U+11C53U+11C54U+11C55U+11C56U+11C57U+11C58U+11C59U+11D50U+11D51U+11D52U+11D53U+11D54U+11D55U+11D56U+11D57U+11D58U+11D59" \o
    "U+11DA0U+11DA1U+11DA2U+11DA3U+11DA4U+11DA5U+11DA6U+11DA7U+11DA8U+11DA9U+11F50U+11F51U+11F52U+11F53U+11F54U+11F55U+11F56U+11F57U+11F58U+11F59" \o
    "U+16130U+16131U+16132U+16133U+16134U+16135U+16136U+16137U+16138U+16139U+16A60U+16A61U+16A62U+16A63U+16A64U+16A65U+16A66U+16A67U+16A68U+16A69" \o
    "U+16AC0U+16AC1U+16AC2U+16AC3U+16AC4U+16AC5U+16AC6U+16AC7U+16AC8U+16AC9U+16B50U+16B51U+16B52U+16B53U+16B54U+16B55U+16B56U+16B57U+16B58U+16B59" \o
    "U+16D70U+16D71U+16D72U+16D73U+16D74U+16D75U+16D76U+16D77U+16D78U+16D79U+1CCF0U+1CCF1U+1CCF2U+1CCF3U+1CCF4U+1CCF5U+1CCF6U+1CCF7U+1CCF8U+1CCF9" \o
    "U+1D7CEU+1D7CFU+1D7D0U+1D7D1U+1D7D2U+1D7D3U+1D7D4U+1D7D5U+1D7D6U+1D7D7U+1D7D8U+1D7D9U+1D7DAU+1D7DBU+1D7DCU+1D7DDU+1D7DEU+1D7DFU+1D7E0U+1D7E1" \o
    "U+1D7E2U+1D7E3U+1D7E4U+1D7E5U+1D7E6U+1D7E7U+1D7E8U+1D7E9U+1D7EAU+1D7EBU+1D7ECU+1D7EDU+1D7EEU+1D7EFU+1D7F0U+1D7F1U+1D7F2U+1D7F3U+1D7F4U+1D7F5" \o
    "U+1D7F6U+1D7F7U+1D7F8U+1D7F9U+1D7FAU+1D7FBU+1D7FCU+1D7FDU+1D7FEU+1D7FFU+1E140U+1E141U+1E142U+1E143U+1E144U+1E145U+1E146U+1E147U+1E148U+1E149" \o
    "U+1E2F0U+1E2F1U+1E2F2U+1E2F3U+1E2F4U+1E2F5U+1E2F6U+1E2F7U+1E2F8U+1E2F9U+1E4F0U+1E4F1U+1E4F2U+1E4F3U+1E4F4U+1E4F5U+1E4F6U+1E4F7U+1E4F8U+1E4F9" \o
    "U+1E5F1U+1E5F2U+1E5F3U+1E5F4U+1E5F5U+1E5F6U+1E5F7U+1E5F8U+1E5F9U+1E5FAU+1E950U+1E951U+1E952U+1E953U+1E954U+1E955U+1E956U+1E957U+1E958U+1E959" \o
    "U+1FBF0U+1FBF1U+1FBF2U+1FBF3U+1FBF4U+1FBF5U+1FBF6U+1FBF7U+1FBF8U+1FBF9"

\* A sequence's elements
RangeOf(s) == {s[i] : i \in 1..Len(s)}

\* \d of the regex crate: the decimal digits of every script (category Nd)
Digits == AsciiDigits \cup RangeOf(Fields(OtherDigitsText))

DigitVal(ch) ==
    CASE ch = "0" -> 0 [] ch = "1" -> 1 [] ch = "2" -> 2 [] ch = "3" -> 3
      [] ch = "4" -> 4 [] ch = "5" -> 5 [] ch = "6" -> 6 [] ch = "7" -> 7
      [] ch = "8" -> 8 [] ch = "9" -> 9

\* re::DATE_REGEX, (\d{2}\.\d{2}\.\d{4}), matching at position i
DateRegexAt(s, i) ==
    /\ i + 9 <= Len(s)
    /\ \A j \in {0, 1, 3, 4, 6, 7, 8, 9} : s[i + j] \in Digits
    /\ s[i + 2] = "."
    /\ s[i + 5] = "."

\* Regex::find: the leftmost match
DateRegexFind(s) ==
    IF \E i \in 1..Len(s) : DateRegexAt(s, i)
    THEN LET i == CHOOSE i \in 1..Len(s) :
                     /\ DateRegexAt(s, i)
                     /\ \A j \in 1..(i - 1) : ~DateRegexAt(s, j)
         IN Some(SubSeq(s, i, i + 9))
    ELSE NoneOpt

IsLeap(y) == (y % 4 = 0 /\ y % 100 # 0) \/ y % 400 = 0

DaysInMonth(y, m) ==
    IF m = 2 THEN (IF IsLeap(y) THEN 29 ELSE 28)
    ELSE IF m \in {4, 6, 9, 11} THEN 30 ELSE 31

NaiveDate(y, m, d) == [y |-> y, m |-> m, d |-> d]

\* NaiveDate::parse_from_str(m, "%d.%m.%Y").ok() on a DATE_REGEX match: chrono
\* reads the digits 0 to 9 only, so a match holding any other digit is an error
ParseDate(t) ==
    IF \E j \in {1, 2, 4, 5, 7, 8, 9, 10} : t[j] \notin AsciiDigits THEN NoneOpt
    ELSE
    LET d == 10 * DigitVal(t[1]) + DigitVal(t[2])
        m == 10 * DigitVal(t[4]) + DigitVal(t[5])
        y == 1000 * DigitVal(t[7]) + 100 * DigitVal(t[8])
               + 10 * DigitVal(t[9]) + DigitVal(t[10])
    IN IF m \in 1..12 /\ d \in 1..DaysInMonth(y, m)
       THEN Some(NaiveDate(y, m, d))
       ELSE NoneOpt

\* --------------------------------------------------------- the document
\* A document is the sequence of its day-sections (the elements matching
\* "body div.accordion > div"). A section is
\*   [titles: the text nodes under its "h3 > a" elements, in document order,
\*    children: its child nodes].
\* A child node is [tag, children]: tag "#text" is a text node, anything else
\* an element; the children of a div are the nodes of the menu container.
\* A node of the container is [tag, classes, rows].

\* Mutant: a section whose title gives no date counts as the requested day.
SectionMatchesLenient(sec, day) ==
    IF sec.titles = <<>> THEN TRUE
    ELSE LET m == DateRegexFind(sec.titles[1]) IN
         IF ~m.some THEN TRUE
         ELSE LET p == ParseDate(m.val) IN
              IF ~p.some THEN TRUE ELSE p.val = day

\* The filter closure of fetch_daily_menu: the first text under "h3 > a", the
\* first date in it, parsed, equals `day`; false when any of these is missing.
SectionMatches(sec, day) ==
    IF sec.titles = <<>> THEN FALSE
    ELSE LET m == DateRegexFind(sec.titles[1]) IN
         IF ~m.some THEN FALSE
         ELSE LET p == ParseDate(m.val) IN
              IF ~p.some THEN FALSE ELSE p.val = day

RECURSIVE FlatChildren(_, _)
FlatChildren(secs, day) ==
    IF secs = <<>> THEN <<>>
    ELSE (IF SectionMatches(Head(secs), day) THEN Head(secs).children ELSE <<>>)
         \o FlatChildren(Tail(secs), day)

IsDiv(node) == node.tag = "div"

\* -------------------------------------------------------------- the rows
\* A row of the dish table ("tbody > tr") is
\*   [classes: the tr's class names, in order,
\*    category: Option of the text nodes of its span.menue-category,
\*    descr: Option of the direct text children of its
\*           "span.menue-desc > .expand-nutr",
\*    price: Option of the text nodes of its span.menue-price].
\* A row of the extras table ("tbody tr .menue-wrapper") is
\*   [category: Option of the text nodes of its category cell,
\*    desc: Option of the direct text children of its description cell].

\* The filter_map of parse_menu_dish over the tr's classes.
LabelOf(cls) ==
    CASE cls = "Fisch" -> Some("Fish")
      [] cls = "OLV" -> Some("Veggie")
      [] cls = "vegan" -> Some("Vegan")
      [] cls = "Geflügel" -> Some("Chicken")
      [] cls = "Schwein" -> Some("Pork")
      [] cls = "Rind" -> Some("Beef")
      [] OTHER -> NoneOpt

\* Element::classes() yields the names of the class attribute sorted and
\* without duplicates (by the bytes of the names: a capital letter comes
\* before every small one). The six names with a Label, in that order:
SortedMarkers == <<"Fisch", "Geflügel", "OLV", "Rind", "Schwein", "vegan">>

RECURSIVE LabelsAmong(_, _)
LabelsAmong(markers, classes) ==
    IF markers = <<>> THEN <<>>
    ELSE (IF \E i \in 1..Len(classes) : classes[i] = Head(markers)
          THEN <<LabelOf(Head(markers)).val>>
          ELSE <<>>)
         \o LabelsAmong(Tail(markers), classes)

\* tr.value().classes().filter_map(..).collect(): the Labels of the row's
\* distinct class names, in the sorted order of the names.
Labels(classes) == LabelsAmong(SortedMarkers, classes)

\* Dish::new(name, descs, labels, price)
Dish(name, descs, labels, price) ==
    [name |-> name, ingreds |-> descs, labels |-> labels, price |-> price]

\* Mutant: the name is not taken off the front of the fragments.
parse_menu_dish_KeepsName(tr) ==
    IF ~tr.category.some
    THEN XErr(Anyhow("No span with class \"menue-category\""))
    ELSE IF tr.category.val = <<>>
    THEN XErr(Anyhow(".menu-category contains no text node"))
    ELSE LET words == SplitAsciiWhitespace(Trim(tr.category.val[1])) IN
         IF words = <<>>
         THEN XPanic
         ELSE IF ~tr.descr.some
         THEN XErr(Anyhow("No span with class \"menue-descr\""))
         ELSE LET parts == MapTrim(Split(Concat(tr.descr.val), "|"))
                  price == IF tr.price.some /\ tr.price.val # <<>>
                           THEN Some(tr.price.val[1])
                           ELSE NoneOpt
              IN XOk(<<words[1],
                       Dish(parts[1], parts, Labels(tr.classes), price)>>)

\* HtmlMenuFetcher::parse_menu_dish: XOk(<<category, dish>>), an error for a
\* missing element or text node, and a panic (unwrap on None) when the
\* category text holds no token.
parse_menu_dish(tr) ==
    IF ~tr.category.some
    THEN XErr(Anyhow("No span with class \"menue-category\""))
    ELSE IF tr.category.val = <<>>
    THEN XErr(Anyhow(".menu-category contains no text node"))
    ELSE LET words == SplitAsciiWhitespace(Trim(tr.category.val[1])) IN
         IF words = <<>>
         THEN XPanic
         ELSE IF ~tr.descr.some
         THEN XErr(Anyhow("No span with class \"menue-descr\""))
         ELSE LET parts == MapTrim(Split(Concat(tr.descr.val), "|"))
                  price == IF tr.price.some /\ tr.price.val # <<>>
                           THEN Some(tr.price.val[1])
                           ELSE NoneOpt
              IN XOk(<<words[1],
                       Dish(parts[1], Tail(parts), Labels(tr.classes), price)>>)

EmptyMap == [k \in {} |-> <<>>]

\* map.entry(cat).or_insert(vec![]).push(dish)
PushDish(map, cat, dish) ==
    IF cat \in DOMAIN map
    THEN [map EXCEPT ![cat] = Append(@, dish)]
    ELSE [k \in DOMAIN map \cup {cat} |-> IF k = cat THEN <<dish>> ELSE map[k]]

\* The fold of parse_menu_table: every row is parsed; `val?` comes before
\* `acc?`, so the error of the last bad row is the result.
RECURSIVE FoldDishes(_, _)
FoldDishes(rows, acc) ==
    IF rows = <<>> THEN acc
    ELSE LET val == parse_menu_dish(Head(rows)) IN
         IF val.tag = "Panic" THEN XPanic
         ELSE IF val.tag = "Err" THEN FoldDishes(Tail(rows), val)
         ELSE IF acc.tag = "Err" THEN FoldDishes(Tail(rows), acc)
         ELSE FoldDishes(Tail(rows),
                         XOk(PushDish(acc.val, val.val[1], val.val[2])))

\* HtmlMenuFetcher::parse_menu_table
parse_menu_table(table) == FoldDishes(table.rows, XOk(EmptyMap))

\* MenuExtra::new(category, extra)
MenuExtra(category, extra) == [category |-> category, extra |-> extra]

\* Mutant: every line but the first is set off with ", ".
parse_extra_CommasOnly(td) ==
    LET category == IF td.category.some /\ td.category.val # <<>>
                    THEN Trim(td.category.val[1])
                    ELSE <<>>
    IN IF ~td.desc.some
       THEN XErr(Anyhow("No span with class \"menue-desc\""))
       ELSE XOk(MenuExtra(category, Join(MapTrim(td.desc.val), <<",", " ">>)))

\* The closure of parse_extras_table for one row.
parse_extra(td) ==
    LET category == IF td.category.some /\ td.category.val # <<>>
                    THEN Trim(td.category.val[1])
                    ELSE <<>>
    IN IF ~td.desc.some
       THEN XErr(Anyhow("No span with class \"menue-desc\""))
       ELSE LET extras == MapTrim(td.desc.val)
                n == Len(extras)
            IN IF n = 0
               THEN XOk(MenuExtra(category, Concat(extras)))
               ELSE XOk(MenuExtra(category,
                          Join(SubSeq(extras, 1, n - 1), <<",", " ">>)
                            \o <<" ", "o", "d", "e", "r", " ">> \o extras[n]))

\* collect::<anyhow::Result<Vec<MenuExtra>>>(): the first error ends it.
RECURSIVE CollectExtras(_, _)
CollectExtras(rows, acc) ==
    IF rows = <<>> THEN XOk(acc)
    ELSE LET val == parse_extra(Head(rows)) IN
         IF val.tag = "Err" THEN val
         ELSE CollectExtras(Tail(rows), Append(acc, val.val))

\* HtmlMenuFetcher::parse_extras_table
parse_extras_table(table) == CollectExtras(table.rows, <<>>)

UpperChars == <<"A", "B", "C", "D", "E", "F", "G", "H", "I", "J", "K", "L", "M", "N", "O", "P", "Q", "R", "S", "T", "U", "V", "W", "X", "Y", "Z">>
LowerChars == <<"a", "b", "c", "d", "e", "f", "g", "h", "i", "j", "k", "l", "m", "n", "o", "p", "q", "r", "s", "t", "u", "v", "w", "x", "y", "z">>

\* u8::to_ascii_lowercase, per character
LowerAscii(ch) ==
    IF \E i \in 1..Len(UpperChars) : UpperChars[i] = ch
    THEN LowerChars[CHOOSE i \in 1..Len(UpperChars) : UpperChars[i] = ch]
    ELSE ch

\* A class name with its letters A to Z made small
RECURSIVE AsciiLower(_)
AsciiLower(cls) ==
    IF cls = "" THEN ""
    ELSE LowerAscii(SubSeq(cls, 1, 1)) \o AsciiLower(SubSeq(cls, 2, Len(cls)))

\* Element::has_class(name, AsciiCaseInsensitive): some class name equals
\* `name` up to the case of the letters A to Z.
HasClass(e, name) ==
    \E i \in 1..Len(e.classes) : AsciiLower(e.classes[i]) = AsciiLower(name)

\* The fold of parse_menu over the container's child tables: the last table
\* of each kind is kept, and a table of both kinds is a dish table.
RECURSIVE FoldTables(_, _)
FoldTables(nodes, acc) ==
    IF nodes = <<>> THEN acc
    ELSE LET e == Head(nodes) IN
         IF e.tag # "table" THEN FoldTables(Tail(nodes), acc)
         ELSE IF HasClass(e, "menues")
         THEN FoldTables(Tail(nodes), <<Some(e), acc[2]>>)
         ELSE IF HasClass(e, "extras")
         THEN FoldTables(Tail(nodes), <<acc[1], Some(e)>>)
         ELSE FoldTables(Tail(nodes), acc)

\* Menu::new(dishes, extras)
MenuNew(dishes, extras) == [dishes |-> dishes, extras |-> extras]

\* Mutant: a container without an extras table is a menu without extras.
parse_menu_ExtrasOptional(container) ==
    LET tables == FoldTables(container.children, <<NoneOpt, NoneOpt>>) IN
    IF ~tables[1].some
    THEN XErr(ElementNotFound("table", <<"menues">>))
    ELSE LET dishes == parse_menu_table(tables[1].val) IN
         IF dishes.tag # "Ok" THEN dishes
         ELSE IF ~tables[2].some THEN XOk(MenuNew(dishes.val, <<>>))
         ELSE LET extras == parse_extras_table(tables[2].val) IN
              IF extras.tag # "Ok" THEN extras
              ELSE XOk(MenuNew(dishes.val, extras.val))

\* HtmlMenuFetcher::parse_menu
parse_menu(container) ==
    LET tables == FoldTables(container.children, <<NoneOpt, NoneOpt>>) IN
    IF ~tables[1].some
    THEN XErr(ElementNotFound("table", <<"menues">>))
    ELSE IF ~tables[2].some
    THEN XErr(ElementNotFound("table", <<"extras">>))
    ELSE LET dishes == parse_menu_table(tables[1].val) IN
         IF dishes.tag # "Ok" THEN dishes
         ELSE LET extras == parse_extras_table(tables[2].val) IN
              IF extras.tag # "Ok" THEN extras
              ELSE XOk(MenuNew(dishes.val, extras.val))

\* HtmlMenuFetcher::fetch_daily_menu on a fetched document: the first div child
\* of the sections whose date is `day`, parsed; CanteenClosed without one.
html_fetch_daily_menu(doc, day, canteen) ==
    LET divs == SelectSeq(FlatChildren(doc, day), IsDiv) IN
    IF divs = <<>>
    THEN XErr(CanteenClosed(canteen, day))
    ELSE parse_menu(divs[1])

\* ------------------------------------------------- the documents checked
\* How the site writes a date: DD.MM.YYYY.
DigitChar(n) ==
    CASE n = 0 -> "0" [] n = 1 -> "1" [] n = 2 -> "2" [] n = 3 -> "3"
      [] n = 4 -> "4" [] n = 5 -> "5" [] n = 6 -> "6" [] n = 7 -> "7"
      [] n = 8 -> "8" [] n = 9 -> "9"

Fmt2(n) == <<DigitChar(n \div 10), DigitChar(n % 10)>>

FmtDate(d, m, y) ==
    Fmt2(d) \o <<".">> \o Fmt2(m) \o <<".">> \o Fmt2(y \div 100) \o Fmt2(y % 100)

\* "Mo, DD.MM.YYYY"
TitleFor(d, m, y) == <<"M", "o", ",", " ">> \o FmtDate(d, m, y)

\* 08.01.2024 written with the Garay digits U+10D40 to U+10D49
Str_GarayDate == <<"U+10D40", "U+10D48", ".", "U+10D40", "U+10D41", ".", "U+10D42", "U+10D40", "U+10D42", "U+10D44">>

\* 08.01.2024 written with the Arabic-Indic digits U+0660 to U+0669
Str_ArabicDate == <<"U+0660", "U+0668", ".", "U+0660", "U+0661", ".", "U+0662", "U+0660", "U+0662", "U+0664">>

\* The text nodes under the "h3 > a" elements of a section.
Titles ==
    { <<>>,                                          \* no title text
      <<TitleFor(8, 1, 2024)>>,
      <<TitleFor(9, 1, 2024)>>,
      <<TitleFor(31, 2, 2024)>>,                     \* not a calendar date
      <<<<"H", "e", "u", "t", "e">>>>,               \* no date
      <<<<"H", "e", "u", "t", "e">>, TitleFor(8, 1, 2024)>>,   \* date in the second text
      <<FmtDate(9, 1, 2024) \o <<" ">> \o FmtDate(8, 1, 2024)>>,  \* two dates
      <<Str_ArabicDate>>,                            \* digits chrono does not read
      <<Str_GarayDate \o <<" ">> \o FmtDate(8, 1, 2024)>>,  \* such a date first
      <<<<"8", ".", "1", ".", "2", "0", "2", "4">>>> }  \* one-digit day and month

TextNode == [tag |-> "#text", children |-> <<>>]
Element(tag, children) == [tag |-> tag, children |-> children]
Table(classes, rows) == [tag |-> "table", classes |-> classes, rows |-> rows]

Str_Klassiker == <<"K", "l", "a", "s", "s", "i", "k", "e", "r">>
Str_Gulasch == <<"G", "u", "l", "a", "s", "c", "h", " ", "|", " ", "R", "i", "n", "d">>
Str_Price == <<"3", ",", "5", "0">>
Str_Pommes == <<"P", "o", "m", "m", "e", "s">>
Str_Reis == <<"R", "e", "i", "s">>

DishRow == [classes |-> <<"odd", "Rind">>,
            category |-> Some(<<Str_Klassiker>>),
            descr |-> Some(<<Str_Gulasch>>),
            price |-> Some(<<Str_Price>>)]

ExtraRow == [category |-> NoneOpt, desc |-> Some(<<Str_Pommes, Str_Reis>>)]

\* A menu container with both tables, and one without its extras table.
FullContainer ==
    Element("div", <<Table(<<"menues">>, <<DishRow>>), Table(<<"extras">>, <<ExtraRow>>)>>)

NoExtrasContainer == Element("div", <<Table(<<"menues">>, <<DishRow>>)>>)

\* The child nodes of a section.
ChildLists ==
    { <<>>,
      <<TextNode, FullContainer>>,
      <<Element("h3", <<>>), NoExtrasContainer>> }

Sections == [titles : Titles, children : ChildLists]

RECURSIVE SeqsUpTo(_, _)
SeqsUpTo(S, n) ==
    IF n = 0 THEN {<<>>}
    ELSE LET shorter == SeqsUpTo(S, n - 1) IN
         shorter \cup {Append(q, x) : q \in shorter, x \in S}

Pages == SeqsUpTo(Sections, MaxSections)

WantedDays == {NaiveDate(2024, 1, 8), NaiveDate(2024, 1, 9)}

\* ------------------------------------------ HtmlMenuFetcher on its own
InitFetch ==
    /\ InitCache
    /\ page \in Pages
    /\ want \in [day : WantedDays, canteen : {"Academica", "Vita"}]
    /\ out = [tag |-> None]
    /\ hpc = "start"
    /\ RenderOff
    /\ CmdOff
    /\ TgOff

\* fetch_html returned the document: fetch_daily_menu selects and parses.
HtmlFetched ==
    /\ hpc = "start"
    /\ out' = html_fetch_daily_menu(page, want.day, want.canteen)
    /\ hpc' = "done"
    /\ UNCHANGED <<page, want>>
    /\ UNCHANGED <<cacheVars, renderVars, cmdVars, tgVars>>

\* fetch_html failed: the `?` returns the transport error.
HtmlTransportError ==
    /\ hpc = "start"
    /\ out' = XErr([kind |-> "Transport"])
    /\ hpc' = "failed"
    /\ UNCHANGED <<page, want>>
    /\ UNCHANGED <<cacheVars, renderVars, cmdVars, tgVars>>

NextFetch ==
    \/ HtmlFetched
    \/ HtmlTransportError

SpecFetch == InitFetch /\ [][NextFetch]_vars

\* ------------------------------------------- the rows and tables checked
Str_GulaschFull == <<"G", "u", "l", "a", "s", "c", "h", " ", "|", " ", "R", "i", "n", "d", ",", " ", "S", "a", "u", "c", "e", ",", " ", "K", "a", "r", "t", "o", "f", "f", "e", "l", "n">>
Str_RindSauce == <<"R", "i", "n", "d", ",", " ", "S", "a", "u", "c", "e", ",", " ", "K", "a", "r", "t", "o", "f", "f", "e", "l", "n">>
\* A no-break space, "Wok", a form feed and a space, "Tag"
Str_WokTag == <<" ", "W", "o", "k", "\f", " ", "T", "a", "g">>
Str_Wok == <<"W", "o", "k">>
\* A space, a no-break space and a line feed
Str_Blank == <<" ", " ", "\n">>
Str_Tofu == <<"T", "o", "f", "u", " ">>
Str_BarReis == <<"|", " ", "R", "e", "i", "s">>
\* "Pommes" after an em space and before a space
Str_PommesPad == <<"U+2003", "P", "o", "m", "m", "e", "s", " ">>
Str_Salat == <<"S", "a", "l", "a", "t">>
Str_Beilage == <<" ", "B", "e", "i", "l", "a", "g", "e", "\n">>

\* "Gulasch | Rind, Sauce, Kartoffeln" in a row without label classes.
RowGulasch == [classes |-> <<"odd">>,
               category |-> Some(<<Str_Klassiker>>),
               descr |-> Some(<<Str_GulaschFull>>),
               price |-> NoneOpt]

\* A category text of two tokens with blanks around, a description in two
\* text fragments, two label classes of which one is written twice.
RowWok == [classes |-> <<"vegan", "even", "OLV", "vegan">>,
           category |-> Some(<<Str_WokTag, Str_Klassiker>>),
           descr |-> Some(<<Str_Tofu, Str_BarReis>>),
           price |-> Some(<<Str_Price>>)]

\* No span.menue-category in the row.
RowNoCategory == [classes |-> <<>>,
                  category |-> NoneOpt,
                  descr |-> Some(<<Str_Gulasch>>),
                  price |-> NoneOpt]

\* A span.menue-category without a text node.
RowNoCategoryText == [classes |-> <<>>,
                      category |-> Some(<<>>),
                      descr |-> Some(<<Str_Gulasch>>),
                      price |-> NoneOpt]

\* A span.menue-category whose first text node is whitespace only.
RowBlankCategory == [classes |-> <<>>,
                     category |-> Some(<<Str_Blank, Str_Klassiker>>),
                     descr |-> Some(<<Str_Gulasch>>),
                     price |-> NoneOpt]

\* No "span.menue-desc > .expand-nutr" in the row.
RowNoDescr == [classes |-> <<"Rind">>,
               category |-> Some(<<Str_Klassiker>>),
               descr |-> NoneOpt,
               price |-> Some(<<Str_Price>>)]

DishRows == {DishRow, RowGulasch, RowWok, RowNoCategory, RowNoCategoryText,
             RowBlankCategory, RowNoDescr}

\* Extras rows with no description cell and with 0, 1, 2 and 3 text lines.
ExtraNoDesc == [category |-> Some(<<Str_Beilage>>), desc |-> NoneOpt]
ExtraNoLine == [category |-> NoneOpt, desc |-> Some(<<>>)]
ExtraOneLine == [category |-> Some(<<Str_Beilage>>), desc |-> Some(<<Str_PommesPad>>)]
ExtraThreeLines == [category |-> Some(<<>>),
                    desc |-> Some(<<Str_PommesPad, Str_Reis, Str_Salat>>)]

ExtraRows == {ExtraRow, ExtraNoDesc, ExtraNoLine, ExtraOneLine, ExtraThreeLines}

\* The child nodes of a menu container: both tables with every choice of
\* rows, MaxRows rows at most in all, and containers that lack a table.
ContainerKids ==
    { <<Table(<<"menues">>, D), Table(<<"extras">>, E)>> :
        <<D, E>> \in { de \in SeqsUpTo(DishRows, MaxRows)
                                 \X SeqsUpTo(ExtraRows, MaxRows) :
                          Len(de[1]) + Len(de[2]) <= MaxRows } }
    \cup
    { <<>>,
      <<Table(<<"extras">>, <<ExtraRow>>)>>,
      <<Table(<<"extras">>, <<ExtraNoDesc>>)>>,
      <<Table(<<"menues">>, <<DishRow>>)>>,
      <<Table(<<"menues">>, <<RowBlankCategory>>)>>,
      <<Table(<<"menues">>, <<RowNoDescr>>), Table(<<"other">>, <<ExtraRow>>)>>,
      <<[tag |-> "div", classes |-> <<"menues">>, rows |-> <<DishRow>>],
        Table(<<"extras">>, <<ExtraRow>>)>>,
      <<Table(<<"other">>, <<>>), Table(<<"wide", "mEnUeS">>, <<DishRow>>),
        Table(<<"EXTRAS">>, <<ExtraRow>>)>>,
      <<Table(<<"menues">>, <<RowNoDescr>>), Table(<<"MENUES">>, <<RowWok>>),
        Table(<<"extras">>, <<ExtraNoDesc>>), Table(<<"Extras">>, <<ExtraRow>>)>> }

\* Documents of one section, dated 08.01.2024, whose children are a text
\* node and a menu container.
ExtractPages ==
    { <<[titles |-> <<TitleFor(8, 1, 2024)>>,
         children |-> <<TextNode, Element("div", kids)>>]>> :
        kids \in ContainerKids }

InitExtract ==
    /\ InitCache
    /\ page \in ExtractPages
    /\ want \in [day : WantedDays, canteen : {"Academica", "Vita"}]
    /\ out = [tag |-> None]
    /\ hpc = "start"
    /\ RenderOff
    /\ CmdOff
    /\ TgOff

SpecExtract == InitExtract /\ [][NextFetch]_vars

\* ========================================================= Menu::fmt_html
\* The ASCII letters, digits and some punctuation in ascending order of their
\* bytes: String's Ord compares byte by byte.
CharOrder ==
    <<" ", ",", "-", ".", "0", "1", "2", "3", "4", "5", "6", "7", "8", "9",
      ":", "A", "B", "C", "D", "E", "F", "G", "H", "I", "J", "K", "L", "M",
      "N", "O", "P", "Q", "R", "S", "T", "U", "V", "W", "X", "Y", "Z", "_",
      "a", "b", "c", "d", "e", "f", "g", "h", "i", "j", "k", "l", "m", "n",
      "o", "p", "q", "r", "s", "t", "u", "v", "w", "x", "y", "z", "|">>

OrdOf(ch) == CHOOSE i \in 1..Len(CharOrder) : CharOrder[i] = ch

\* Mutant: k2.cmp(k1)
StrGreater(a, b) ==
    \E i \in 1..Len(a) :
        /\ \A j \in 1..(i - 1) : j <= Len(b) /\ a[j] = b[j]
        /\ (i > Len(b) \/ OrdOf(a[i]) > OrdOf(b[i]))

\* k1.cmp(k2) == Less: at the first difference a has the smaller byte, or a is
\* a proper prefix of b.
StrLess(a, b) ==
    \E i \in 1..Len(b) :
        /\ \A j \in 1..(i - 1) : j <= Len(a) /\ a[j] = b[j]
        /\ (i > Len(a) \/ OrdOf(a[i]) < OrdOf(b[i]))

\* sorted_by(|(k1, _), (k2, _)| k1.cmp(k2)) over distinct keys
RECURSIVE SortedKeys(_)
SortedKeys(ks) ==
    IF ks = {} THEN <<>>
    ELSE LET k == CHOOSE k \in ks : \A j \in ks \ {k} : StrLess(k, j)
         IN <<k>> \o SortedKeys(ks \ {k})

Str_EmOpen == <<"<", "e", "m", ">">>
Str_EmClose == <<"<", "/", "e", "m", ">">>
Str_StrongOpen == <<"<", "s", "t", "r", "o", "n", "g", ">">>
Str_StrongClose == <<"<", "/", "s", "t", "r", "o", "n", "g", ">">>
Str_Burger == <<"B", "u", "r", "g", "e", "r">>
Str_Wo == <<"W", "o">>
Str_Vegetarisch == <<"V", "e", "g", "e", "t", "a", "r", "i", "s", "c", "h">>
Str_Tellergericht == <<"T", "e", "l", "l", "e", "r", "g", "e", "r", "i", "c", "h", "t">>
Str_Pizza == <<"P", "i", "z", "z", "a">>

\* impl Display for Label (strum serialize): one emoji, written here by its
\* code point and counted as one character.
LabelEmoji(l) ==
    CASE l = "Beef" -> "U+1F42E"
      [] l = "Chicken" -> "U+1F414"
      [] l = "Fish" -> "U+1F41F"
      [] l = "Pork" -> "U+1F437"
      [] l = "Vegan" -> "U+1F951"
      [] l = "Veggie" -> "U+1F331"

\* The emoji of a category heading, "" for an unknown category.
CategoryEmoji(categ) ==
    CASE categ = Str_Klassiker -> <<"U+1F374">>
      [] categ = Str_Vegetarisch -> <<"U+1F966">>
      [] categ = Str_Tellergericht -> <<"U+1F372">>
      [] categ = Str_Burger -> <<"U+1F354">>
      [] categ = Str_Wok -> <<"U+1F961">>
      [] categ = Str_Pizza -> <<"U+1F355">>
      [] OTHER -> <<>>

\* Dish::fmt_html; the en dash before the price is written by its code point.
dish_fmt_html(dish) ==
    Str_StrongOpen \o dish.name \o Str_StrongClose
      \o (IF dish.ingreds # <<>> THEN <<" ", "|", " ">> ELSE <<>>)
      \o Join(dish.ingreds, <<",", " ">>)
      \o (IF dish.labels # <<>>
          THEN <<" ">> \o Join([i \in 1..Len(dish.labels) |->
                                   <<LabelEmoji(dish.labels[i])>>], <<" ">>)
          ELSE <<>>)
      \o <<" ", "U+2013", " ">> \o Str_StrongOpen \o dish.price \o Str_StrongClose

\* MenuExtra::fmt_html
extra_fmt_html(extra) ==
    Str_EmOpen \o extra.category \o Str_EmClose \o <<":", " ">> \o extra.extra

\* for dish in dishes { write!(s, "{dish_md}\n") }
RECURSIVE DishLines(_)
DishLines(dishes) ==
    IF dishes = <<>> THEN <<>>
    ELSE dish_fmt_html(Head(dishes)) \o <<"\n">> \o DishLines(Tail(dishes))

\* The body of the loop over the sorted categories, from the n-th on (n counts
\* from 0, over all categories, and len is the number of all categories).
RECURSIVE CategoryBlocks(_, _, _)
CategoryBlocks(dishes, keys, n) ==
    IF n >= Len(keys) THEN <<>>
    ELSE LET categ == keys[n + 1]
             emoji == CategoryEmoji(categ)
         IN (IF dishes[categ] = <<>> THEN <<>>
             ELSE Str_EmOpen \o categ \o Str_EmClose
                    \o (IF emoji # <<>> THEN <<" ">> \o emoji ELSE <<>>)
                    \o <<"\n">>
                    \o DishLines(dishes[categ])
                    \o (IF n + 1 < Len(keys) THEN <<"\n">> ELSE <<>>))
            \o CategoryBlocks(dishes, keys, n + 1)

\* for extras in self.extras.iter() { write!(s, "\n{extras_html}") }
RECURSIVE ExtraLines(_)
ExtraLines(extras) ==
    IF extras = <<>> THEN <<>>
    ELSE <<"\n">> \o extra_fmt_html(Head(extras)) \o ExtraLines(Tail(extras))

\* Menu::fmt_html
fmt_html(m) ==
    CategoryBlocks(m.dishes, SortedKeys(DOMAIN m.dishes), 0) \o ExtraLines(m.extras)

\* -------------------------------------------------- the Menus rendered
RenderCats == {Str_Wok, Str_Burger, Str_Wo}

RenderDishes ==
    { Dish(<<"A">>, <<>>, <<>>, <<"1">>),
      Dish(<<"B">>, << <<"x">>, <<"y">> >>, <<"Beef", "Vegan">>, <<>>) }

\* What parse_menu_dish hands to the fold for a row.
RenderRows == RenderCats \X RenderDishes

RenderExtras ==
    { <<>>,
      <<MenuExtra(Str_Wok, Str_Reis)>>,
      <<MenuExtra(<<>>, Str_Pommes), MenuExtra(Str_Wok, Str_Reis)>> }

\* The fold of parse_menu_table over rows that all parsed.
RECURSIVE FoldPairs(_, _)
FoldPairs(rows, map) ==
    IF rows = <<>> THEN map
    ELSE FoldPairs(Tail(rows), PushDish(map, Head(rows)[1], Head(rows)[2]))

\* A HashMap that also has the keys ks, each with an empty Vec.
WithEmpty(map, ks) ==
    [k \in DOMAIN map \cup ks |-> IF k \in DOMAIN map THEN map[k] ELSE <<>>]

\* Menu::new(dishes, extras), with dishes as the fold leaves them and with
\* any HashMap a caller of Menu::new may pass.
InitRender ==
    /\ InitCache
    /\ FetchOff
    /\ CmdOff
    /\ TgOff
    /\ fed \in SeqsUpTo(RenderRows, MaxRows)
    /\ \E ks \in SUBSET RenderCats, extras \in RenderExtras :
          shown = MenuNew(WithEmpty(FoldPairs(fed, EmptyMap), ks), extras)
    /\ html = <<>>
    /\ rpc = "start"

\* menu.fmt_html()
Render ==
    /\ rpc = "start"
    /\ html' = fmt_html(shown)
    /\ rpc' = "done"
    /\ UNCHANGED <<fed, shown>>
    /\ UNCHANGED <<cacheVars, fetchVars, cmdVars, tgVars>>

NextRender == Render

SpecRender == InitRender /\ [][NextRender]_vars

\* =========================================================== Command::parse
\* A Command is [cmd |-> "Cancel"] or [cmd |-> "Daily", day_of_week, canteen];
\* a ParseError is [kind |-> "WrongBotName", name], [kind |-> "IncorrectFormat"]
\* or [kind |-> "UnknownCommand", text].
\* The characters whose char::to_lowercase is one other character, each
\* followed by that character, as a table in the order of the code points
LowercaseText ==
    "A      a      B      b      C      c      D      d      E      e      F      f      G      g      H      h      I      i      J      j      " \o
    "K      k      L      l      M      m      N      n      O      o      P      p      Q      q      R      r      S      s      T      t      " \o
    "U      u      V      v      W      w      X      x      Y      y      Z      z      À      à      Á      á      Â      â      Ã      ã      " \o
    "Ä      ä      Å      å      Æ      æ      Ç      ç      È      è      É      é      Ê      ê      Ë      ë      Ì      ì      Í      í      " \o
    "Î      î      Ï      ï      Ð      ð      Ñ      ñ      Ò      ò      Ó      ó      Ô      ô      Õ      õ      Ö      ö      Ø      ø      " \o
    "Ù      ù      Ú      ú      Û      û      Ü      ü      Ý      ý      Þ      þ      U+0100 U+0101 U+0102 U+0103 U+0104 U+0105 U+0106 U+0107 " \o
    "U+0108 U+0109 U+010A U+010B U+010C U+010D U+010E U+010F U+0110 U+0111 U+0112 U+0113 U+0114 U+0115 U+0116 U+0117 U+0118 U+0119 U+011A U+011B " \o
    "U+011C U+011D U+011E U+011F U+0120 U+0121 U+0122 U+0123 U+0124 U+0125 U+0126 U+0127 U+0128 U+0129 U+012A U+012B U+012C U+012D U+012E U+012F " \o
    "U+0132 U+0133 U+0134 U+0135 U+0136 U+0137 U+0139 U+013A U+013B U+013C U+013D U+013E U+013F U+0140 U+0141 U+0142 U+0143 U+0144 U+0145 U+0146 " \o
    "U+0147 U+0148 U+014A U+014B U+014C U+014D U+014E U+014F U+0150 U+0151 U+0152 U+0153 U+0154 U+0155 U+0156 U+0157 U+0158 U+0159 U+015A U+015B " \o
    "U+015C U+015D U+015E U+015F U+0160 U+0161 U+0162 U+0163 U+0164 U+0165 U+0166 U+0167 U+0168 U+0169 U+016A U+016B U+016C U+016D U+016E U+016F " \o
    "U+0170 U+0171 U+0172 U+0173 U+0174 U+0175 U+0176 U+0177 U+0178 ÿ      U+0179 U+017A U+017B U+017C U+017D U+017E U+0181 U+0253 U+0182 U+0183 " \o
    "U+0184 U+0185 U+0186 U+0254 U+0187 U+0188 U+0189 U+0256 U+018A U+0257 U+018B U+018C U+018E U+01DD U+018F U+0259 U+0190 U+025B U+0191 U+0192 " \o
    "U+0193 U+0260 U+0194 U+0263 U+0196 U+0269 U+0197 U+0268 U+0198 U+0199 U+019C U+026F U+019D U+0272 U+019F U+0275 U+01A0 U+01A1 U+01A2 U+01A3 " \o
    "U+01A4 U+01A5 U+01A6 U+0280 U+01A7 U+01A8 U+01A9 U+0283 U+01AC U+01AD U+01AE U+0288 U+01AF U+01B0 U+01B1 U+028A U+01B2 U+028B U+01B3 U+01B4 " \o
    "U+01B5 U+01B6 U+01B7 U+0292 U+01B8 U+01B9 U+01BC U+01BD U+01C4 U+01C6 U+01C5 U+01C6 U+01C7 U+01C9 U+01C8 U+01C9 U+01CA U+01CC U+01CB U+01CC " \o
    "U+01CD U+01CE U+01CF U+01D0 U+01D1 U+01D2 U+01D3 U+01D4 U+01D5 U+01D6 U+01D7 U+01D8 U+01D9 U+01DA U+01DB U+01DC U+01DE U+01DF U+01E0 U+01E1 " \o
    "U+01E2 U+01E3 U+01E4 U+01E5 U+01E6 U+01E7 U+01E8 U+01E9 U+01EA U+01EB U+01EC U+01ED U+01EE U+01EF U+01F1 U+01F3 U+01F2 U+01F3 U+01F4 U+01F5 " \o
    "U+01F6 U+0195 U+01F7 U+01BF U+01F8 U+01F9 U+01FA U+01FB U+01FC U+01FD U+01FE U+01FF U+0200 U+0201 U+0202 U+0203 U+0204 U+0205 U+0206 U+0207 " \o
    "U+0208 U+0209 U+020A U+020B U+020C U+020D U+020E U+020F U+0210 U+0211 U+0212 U+0213 U+0214 U+0215 U+0216 U+0217 U+0218 U+0219 U+021A U+021B " \o
    "U+021C U+021D U+021E U+021F U+0220 U+019E U+0222 U+0223 U+0224 U+0225 U+0226 U+0227 U+0228 U+0229 U+022A U+022B U+022C U+022D U+022E U+022F " \o
    "U+0230 U+0231 U+0232 U+0233 U+023A U+2C65 U+023B U+023C U+023D U+019A U+023E U+2C66 U+0241 U+0242 U+0243 U+0180 U+0244 U+0289 U+0245 U+028C " \o
    "U+0246 U+0247 U+0248 U+0249 U+024A U+024B U+024C U+024D U+024E U+024F U+0370 U+0371 U+0372 U+0373 U+0376 U+0377 U+037F U+03F3 U+0386 U+03AC " \o
    "U+0388 U+03AD U+0389 U+03AE U+038A U+03AF U+038C U+03CC U+038E U+03CD U+038F U+03CE U+0391 U+03B1 U+0392 U+03B2 U+0393 U+03B3 U+0394 U+03B4 " \o
    "U+0395 U+03B5 U+0396 U+03B6 U+0397 U+03B7 U+0398 U+03B8 U+0399 U+03B9 U+039A U+03BA U+039B U+03BB U+039C U+03BC U+039D U+03BD U+039E U+03BE " \o
    "U+039F U+03BF U+03A0 U+03C0 U+03A1 U+03C1 U+03A3 U+03C3 U+03A4 U+03C4 U+03A5 U+03C5 U+03A6 U+03C6 U+03A7 U+03C7 U+03A8 U+03C8 U+03A9 U+03C9 " \o
    "U+03AA U+03CA U+03AB U+03CB U+03CF U+03D7 U+03D8 U+03D9 U+03DA U+03DB U+03DC U+03DD U+03DE U+03DF U+03E0 U+03E1 U+03E2 U+03E3 U+03E4 U+03E5 " \o
    "U+03E6 U+03E7 U+03E8 U+03E9 U+03EA U+03EB U+03EC U+03ED U+03EE U+03EF U+03F4 U+03B8 U+03F7 U+03F8 U+03F9 U+03F2 U+03FA U+03FB U+03FD U+037B " \o
    "U+03FE U+037C U+03FF U+037D U+0400 U+0450 U+0401 U+0451 U+0402 U+0452 U+0403 U+0453 U+0404 U+0454 U+0405 U+0455 U+0406 U+0456 U+0407 U+0457 " \o
    "U+0408 U+0458 U+0409 U+0459 U+040A U+045A U+040B U+045B U+040C U+045C U+040D U+045D U+040E U+045E U+040F U+045F U+0410 U+0430 U+0411 U+0431 " \o
    "U+0412 U+0432 U+0413 U+0433 U+0414 U+0434 U+0415 U+0435 U+0416 U+0436 U+0417 U+0437 U+0418 U+0438 U+0419 U+0439 U+041A U+043A U+041B U+043B " \o
    "U+041C U+043C U+041D U+043D U+041E U+043E U+041F U+043F U+0420 U+0440 U+0421 U+0441 U+0422 U+0442 U+0423 U+0443 U+0424 U+0444 U+0425 U+0445 " \o
    "U+0426 U+0446 U+0427 U+0447 U+0428 U+0448 U+0429 U+0449 U+042A U+044A U+042B U+044B U+042C U+044C U+042D U+044D U+042E U+044E U+042F U+044F " \o
    "U+0460 U+0461 U+0462 U+0463 U+0464 U+0465 U+0466 U+0467 U+0468 U+0469 U+046A U+046B U+046C U+046D U+046E U+046F U+0470 U+0471 U+0472 U+0473 " \o
    "U+0474 U+0475 U+0476 U+0477 U+0478 U+0479 U+047A U+047B U+047C U+047D U+047E U+047F U+0480 U+0481 U+048A U+048B U+048C U+048D U+048E U+048F " \o
    "U+0490 U+0491 U+0492 U+0493 U+0494 U+0495 U+0496 U+0497 U+0498 U+0499 U+049A U+049B U+049C U+049D U+049E U+049F U+04A0 U+04A1 U+04A2 U+04A3 " \o
    "U+04A4 U+04A5 U+04A6 U+04A7 U+04A8 U+04A9 U+04AA U+04AB U+04AC U+04AD U+04AE U+04AF U+04B0 U+04B1 U+04B2 U+04B3 U+04B4 U+04B5 U+04B6 U+04B7 " \o
    "U+04B8 U+04B9 U+04BA U+04BB U+04BC U+04BD U+04BE U+04BF U+04C0 U+04CF U+04C1 U+04C2 U+04C3 U+04C4 U+04C5 U+04C6 U+04C7 U+04C8 U+04C9 U+04CA " \o
    "U+04CB U+04CC U+04CD U+04CE U+04D0 U+04D1 U+04D2 U+04D3 U+04D4 U+04D5 U+04D6 U+04D7 U+04D8 U+04D9 U+04DA U+04DB U+04DC U+04DD U+04DE U+04DF " \o
    "U+04E0 U+04E1 U+04E2 U+04E3 U+04E4 U+04E5 U+04E6 U+04E7 U+04E8 U+04E9 U+04EA U+04EB U+04EC U+04ED U+04EE U+04EF U+04F0 U+04F1 U+04F2 U+04F3 " \o
    "U+04F4 U+04F5 U+04F6 U+04F7 U+04F8 U+04F9 U+04FA U+04FB U+04FC U+04FD U+04FE U+04FF U+0500 U+0501 U+0502 U+0503 U+0504 U+0505 U+0506 U+0507 " \o
    "U+0508 U+0509 U+050A U+050B U+050C U+050D U+050E U+050F U+0510 U+0511 U+0512 U+0513 U+0514 U+0515 U+0516 U+0517 U+0518 U+0519 U+051A U+051B " \o
    "U+051C U+051D U+051E U+051F U+0520 U+0521 U+0522 U+0523 U+0524 U+0525 U+0526 U+0527 U+0528 U+0529 U+052A U+052B U+052C U+052D U+052E U+052F " \o
    "U+0531 U+0561 U+0532 U+0562 U+0533 U+0563 U+0534 U+0564 U+0535 U+0565 U+0536 U+0566 U+0537 U+0567 U+0538 U+0568 U+0539 U+0569 U+053A U+056A " \o
    "U+053B U+056B U+053C U+056C U+053D U+056D U+053E U+056E U+053F U+056F U+0540 U+0570 U+0541 U+0571 U+0542 U+0572 U+0543 U+0573 U+0544 U+0574 " \o
    "U+0545 U+0575 U+0546 U+0576 U+0547 U+0577 U+0548 U+0578 U+0549 U+0579 U+054A U+057A U+054B U+057B U+054C U+057C U+054D U+057D U+054E U+057E " \o
    "U+054F U+057F U+0550 U+0580 U+0551 U+0581 U+0552 U+0582 U+0553 U+0583 U+0554 U+0584 U+0555 U+0585 U+0556 U+0586 U+10A0 U+2D00 U+10A1 U+2D01 " \o
    "U+10A2 U+2D02 U+10A3 U+2D03 U+10A4 U+2D04 U+10A5 U+2D05 U+10A6 U+2D06 U+10A7 U+2D07 U+10A8 U+2D08 U+10A9 U+2D09 U+10AA U+2D0A U+10AB U+2D0B " \o
    "U+10AC U+2D0C U+10AD U+2D0D U+10AE U+2D0E U+10AF U+2D0F U+10B0 U+2D10 U+10B1 U+2D11 U+10B2 U+2D12 U+10B3 U+2D13 U+10B4 U+2D14 U+10B5 U+2D15 " \o
    "U+10B6 U+2D16 U+10B7 U+2D17 U+10B8 U+2D18 U+10B9 U+2D19 U+10BA U+2D1A U+10BB U+2D1B U+10BC U+2D1C U+10BD U+2D1D U+10BE U+2D1E U+10BF U+2D1F " \o
    "U+10C0 U+2D20 U+10C1 U+2D21 U+10C2 U+2D22 U+10C3 U+2D23 U+10C4 U+2D24 U+10C5 U+2D25 U+10C7 U+2D27 U+10CD U+2D2D U+13A0 U+AB70 U+13A1 U+AB71 " \o
    "U+13A2 U+AB72 U+13A3 U+AB73 U+13A4 U+AB74 U+13A5 U+AB75 U+13A6 U+AB76 U+13A7 U+AB77 U+13A8 U+AB78 U+13A9 U+AB79 U+13AA U+AB7A U+13AB U+AB7B " \o
    "U+13AC U+AB7C U+13AD U+AB7D U+13AE U+AB7E U+13AF U+AB7F U+13B0 U+AB80 U+13B1 U+AB81 U+13B2 U+AB82 U+13B3 U+AB83 U+13B4 U+AB84 U+13B5 U+AB85 " \o
    "U+13B6 U+AB86 U+13B7 U+AB87 U+13B8 U+AB88 U+13B9 U+AB89 U+13BA U+AB8A U+13BB U+AB8B U+13BC U+AB8C U+13BD U+AB8D U+13BE U+AB8E U+13BF U+AB8F " \o
    "U+13C0 U+AB90 U+13C1 U+AB91 U+13C2 U+AB92 U+13C3 U+AB93 U+13C4 U+AB94 U+13C5 U+AB95 U+13C6 U+AB96 U+13C7 U+AB97 U+13C8 U+AB98 U+13C9 U+AB99 " \o
    "U+13CA U+AB9A U+13CB U+AB9B U+13CC U+AB9C U+13CD U+AB9D U+13CE U+AB9E U+13CF U+AB9F U+13D0 U+ABA0 U+13D1 U+ABA1 U+13D2 U+ABA2 U+13D3 U+ABA3 " \o
    "U+13D4 U+ABA4 U+13D5 U+ABA5 U+13D6 U+ABA6 U+13D7 U+ABA7 U+13D8 U+ABA8 U+13D9 U+ABA9 U+13DA U+ABAA U+13DB U+ABAB U+13DC U+ABAC U+13DD U+ABAD " \o
    "U+13DE U+ABAE U+13DF U+ABAF U+13E0 U+ABB0 U+13E1 U+ABB1 U+13E2 U+ABB2 U+13E3 U+ABB3 U+13E4 U+ABB4 U+13E5 U+ABB5 U+13E6 U+ABB6 U+13E7 U+ABB7 " \o
    "U+13E8 U+ABB8 U+13E9 U+ABB9 U+13EA U+ABBA U+13EB U+ABBB U+13EC U+ABBC U+13ED U+ABBD U+13EE U+ABBE U+13EF U+ABBF U+13F0 U+13F8 U+13F1 U+13F9 " \o
    "U+13F2 U+13FA U+13F3 U+13FB U+13F4 U+13FC U+13F5 U+13FD U+1C89 U+1C8A U+1C90 U+10D0 U+1C91 U+10D1 U+1C92 U+10D2 U+1C93 U+10D3 U+1C94 U+10D4 " \o
    "U+1C95 U+10D5 U+1C96 U+10D6 U+1C97 U+10D7 U+1C98 U+10D8 U+1C99 U+10D9 U+1C9A U+10DA U+1C9B U+10DB U+1C9C U+10DC U+1C9D U+10DD U+1C9E U+10DE " \o
    "U+1C9F U+10DF U+1CA0 U+10E0 U+1CA1 U+10E1 U+1CA2 U+10E2 U+1CA3 U+10E3 U+1CA4 U+10E4 U+1CA5 U+10E5 U+1CA6 U+10E6 U+1CA7 U+10E7 U+1CA8 U+10E8 " \o
    "U+1CA9 U+10E9 U+1CAA U+10EA U+1CAB U+10EB U+1CAC U+10EC U+1CAD U+10ED U+1CAE U+10EE U+1CAF U+10EF U+1CB0 U+10F0 U+1CB1 U+10F1 U+1CB2 U+10F2 " \o
    "U+1CB3 U+10F3 U+1CB4 U+10F4 U+1CB5 U+10F5 U+1CB6 U+10F6 U+1CB7 U+10F7 U+1CB8 U+10F8 U+1CB9 U+10F9 U+1CBA U+10FA U+1CBD U+10FD U+1CBE U+10FE " \o
    "U+1CBF U+10FF U+1E00 U+1E01 U+1E02 U+1E03 U+1E04 U+1E05 U+1E06 U+1E07 U+1E08 U+1E09 U+1E0A U+1E0B U+1E0C U+1E0D U+1E0E U+1E0F U+1E10 U+1E11 " \o
    "U+1E12 U+1E13 U+1E14 U+1E15 U+1E16 U+1E17 U+1E18 U+1E19 U+1E1A U+1E1B U+1E1C U+1E1D U+1E1E U+1E1F U+1E20 U+1E21 U+1E22 U+1E23 U+1E24 U+1E25 " \o
    "U+1E26 U+1E27 U+1E28 U+1E29 U+1E2A U+1E2B U+1E2C U+1E2D U+1E2E U+1E2F U+1E30 U+1E31 U+1E32 U+1E33 U+1E34 U+1E35 U+1E36 U+1E37 U+1E38 U+1E39 " \o
    "U+1E3A U+1E3B U+1E3C U+1E3D U+1E3E U+1E3F U+1E40 U+1E41 U+1E42 U+1E43 U+1E44 U+1E45 U+1E46 U+1E47 U+1E48 U+1E49 U+1E4A U+1E4B U+1E4C U+1E4D " \o
    "U+1E4E U+1E4F U+1E50 U+1E51 U+1E52 U+1E53 U+1E54 U+1E55 U+1E56 U+1E57 U+1E58 U+1E59 U+1E5A U+1E5B U+1E5C U+1E5D U+1E5E U+1E5F U+1E60 U+1E61 " \o
    "U+1E62 U+1E63 U+1E64 U+1E65 U+1E66 U+1E67 U+1E68 U+1E69 U+1E6A U+1E6B U+1E6C U+1E6D U+1E6E U+1E6F U+1E70 U+1E71 U+1E72 U+1E73 U+1E74 U+1E75 " \o
    "U+1E76 U+1E77 U+1E78 U+1E79 U+1E7A U+1E7B U+1E7C U+1E7D U+1E7E U+1E7F U+1E80 U+1E81 U+1E82 U+1E83 U+1E84 U+1E85 U+1E86 U+1E87 U+1E88 U+1E89 " \o
    "U+1E8A U+1E8B U+1E8C U+1E8D U+1E8E U+1E8F U+1E90 U+1E91 U+1E92 U+1E93 U+1E94 U+1E95 U+1E9E ß      U+1EA0 U+1EA1 U+1EA2 U+1EA3 U+1EA4 U+1EA5 " \o
    "U+1EA6 U+1EA7 U+1EA8 U+1EA9 U+1EAA U+1EAB U+1EAC U+1EAD U+1EAE U+1EAF U+1EB0 U+1EB1 U+1EB2 U+1EB3 U+1EB4 U+1EB5 U+1EB6 U+1EB7 U+1EB8 U+1EB9 " \o
    "U+1EBA U+1EBB U+1EBC U+1EBD U+1EBE U+1EBF U+1EC0 U+1EC1 U+1EC2 U+1EC3 U+1EC4 U+1EC5 U+1EC6 U+1EC7 U+1EC8 U+1EC9 U+1ECA U+1ECB U+1ECC U+1ECD " \o
    "U+1ECE U+1ECF U+1ED0 U+1ED1 U+1ED2 U+1ED3 U+1ED4 U+1ED5 U+1ED6 U+1ED7 U+1ED8 U+1ED9 U+1EDA U+1EDB U+1EDC U+1EDD U+1EDE U+1EDF U+1EE0 U+1EE1 " \o
    "U+1EE2 U+1EE3 U+1EE4 U+1EE5 U+1EE6 U+1EE7 U+1EE8 U+1EE9 U+1EEA U+1EEB U+1EEC U+1EED U+1EEE U+1EEF U+1EF0 U+1EF1 U+1EF2 U+1EF3 U+1EF4 U+1EF5 " \o
    "U+1EF6 U+1EF7 U+1EF8 U+1EF9 U+1EFA U+1EFB U+1EFC U+1EFD U+1EFE U+1EFF U+1F08 U+1F00 U+1F09 U+1F01 U+1F0A U+1F02 U+1F0B U+1F03 U+1F0C U+1F04 " \o
    "U+1F0D U+1F05 U+1F0E U+1F06 U+1F0F U+1F07 U+1F18 U+1F10 U+1F19 U+1F11 U+1F1A U+1F12 U+1F1B U+1F13 U+1F1C U+1F14 U+1F1D U+1F15 U+1F28 U+1F20 " \o
    "U+1F29 U+1F21 U+1F2A U+1F22 U+1F2B U+1F23 U+1F2C U+1F24 U+1F2D U+1F25 U+1F2E U+1F26 U+1F2F U+1F27 U+1F38 U+1F30 U+1F39 U+1F31 U+1F3A U+1F32 " \o
    "U+1F3B U+1F33 U+1F3C U+1F34 U+1F3D U+1F35 U+1F3E U+1F36 U+1F3F U+1F37 U+1F48 U+1F40 U+1F49 U+1F41 U+1F4A U+1F42 U+1F4B U+1F43 U+1F4C U+1F44 " \o
    "U+1F4D U+1F45 U+1F59 U+1F51 U+1F5B U+1F53 U+1F5D U+1F55 U+1F5F U+1F57 U+1F68 U+1F60 U+1F69 U+1F61 U+1F6A U+1F62 U+1F6B U+1F63 U+1F6C U+1F64 " \o
    "U+1F6D U+1F65 U+1F6E U+1F66 U+1F6F U+1F67 U+1F88 U+1F80 U+1F89 U+1F81 U+1F8A U+1F82 U+1F8B U+1F83 U+1F8C U+1F84 U+1F8D U+1F85 U+1F8E U+1F86 " \o
    "U+1F8F U+1F87 U+1F98 U+1F90 U+1F99 U+1F91 U+1F9A U+1F92 U+1F9B U+1F93 U+1F9C U+1F94 U+1F9D U+1F95 U+1F9E U+1F96 U+1F9F U+1F97 U+1FA8 U+1FA0 " \o
    "U+1FA9 U+1FA1 U+1FAA U+1FA2 U+1FAB U+1FA3 U+1FAC U+1FA4 U+1FAD U+1FA5 U+1FAE U+1FA6 U+1FAF U+1FA7 U+1FB8 U+1FB0 U+1FB9 U+1FB1 U+1FBA U+1F70 " \o
    "U+1FBB U+1F71 U+1FBC U+1FB3 U+1FC8 U+1F72 U+1FC9 U+1F73 U+1FCA U+1F74 U+1FCB U+1F75 U+1FCC U+1FC3 U+1FD8 U+1FD0 U+1FD9 U+1FD1 U+1FDA U+1F76 " \o
    "U+1FDB U+1F77 U+1FE8 U+1FE0 U+1FE9 U+1FE1 U+1FEA U+1F7A U+1FEB U+1F7B U+1FEC U+1FE5 U+1FF8 U+1F78 U+1FF9 U+1F79 U+1FFA U+1F7C U+1FFB U+1F7D " \o
    "U+1FFC U+1FF3 U+2126 U+03C9 U+212A k      U+212B å      U+2132 U+214E U+2160 U+2170 U+2161 U+2171 U+2162 U+2172 U+2163 U+2173 U+2164 U+2174 " \o
    "U+2165 U+2175 U+2166 U+2176 U+2167 U+2177 U+2168 U+2178 U+2169 U+2179 U+216A U+217A U+216B U+217B U+216C U+217C U+216D U+217D U+216E U+217E " \o
    "U+216F U+217F U+2183 U+2184 U+24B6 U+24D0 U+24B7 U+24D1 U+24B8 U+24D2 U+24B9 U+24D3 U+24BA U+24D4 U+24BB U+24D5 U+24BC U+24D6 U+24BD U+24D7 " \o
    "U+24BE U+24D8 U+24BF U+24D9 U+24C0 U+24DA U+24C1 U+24DB U+24C2 U+24DC U+24C3 U+24DD U+24C4 U+24DE U+24C5 U+24DF U+24C6 U+24E0 U+24C7 U+24E1 " \o
    "U+24C8 U+24E2 U+24C9 U+24E3 U+24CA U+24E4 U+24CB U+24E5 U+24CC U+24E6 U+24CD U+24E7 U+24CE U+24E8 U+24CF U+24E9 U+2C00 U+2C30 U+2C01 U+2C31 " \o
    "U+2C02 U+2C32 U+2C03 U+2C33 U+2C04 U+2C34 U+2C05 U+2C35 U+2C06 U+2C36 U+2C07 U+2C37 U+2C08 U+2C38 U+2C09 U+2C39 U+2C0A U+2C3A U+2C0B U+2C3B " \o
    "U+2C0C U+2C3C U+2C0D U+2C3D U+2C0E U+2C3E U+2C0F U+2C3F U+2C10 U+2C40 U+2C11 U+2C41 U+2C12 U+2C42 U+2C13 U+2C43 U+2C14 U+2C44 U+2C15 U+2C45 " \o
    "U+2C16 U+2C46 U+2C17 U+2C47 U+2C18 U+2C48 U+2C19 U+2C49 U+2C1A U+2C4A U+2C1B U+2C4B U+2C1C U+2C4C U+2C1D U+2C4D U+2C1E U+2C4E U+2C1F U+2C4F " \o
    "U+2C20 U+2C50 U+2C21 U+2C51 U+2C22 U+2C52 U+2C23 U+2C53 U+2C24 U+2C54 U+2C25 U+2C55 U+2C26 U+2C56 U+2C27 U+2C57 U+2C28 U+2C58 U+2C29 U+2C59 " \o
    "U+2C2A U+2C5A U+2C2B U+2C5B U+2C2C U+2C5C U+2C2D U+2C5D U+2C2E U+2C5E U+2C2F U+2C5F U+2C60 U+2C61 U+2C62 U+026B U+2C63 U+1D7D U+2C64 U+027D " \o
    "U+2C67 U+2C68 U+2C69 U+2C6A U+2C6B U+2C6C U+2C6D U+0251 U+2C6E U+0271 U+2C6F U+0250 U+2C70 U+0252 U+2C72 U+2C73 U+2C75 U+2C76 U+2C7E U+023F " \o
    "U+2C7F U+0240 U+2C80 U+2C81 U+2C82 U+2C83 U+2C84 U+2C85 U+2C86 U+2C87 U+2C88 U+2C89 U+2C8A U+2C8B U+2C8C U+2C8D U+2C8E U+2C8F U+2C90 U+2C91 " \o
    "U+2C92 U+2C93 U+2C94 U+2C95 U+2C96 U+2C97 U+2C98 U+2C99 U+2C9A U+2C9B U+2C9C U+2C9D U+2C9E U+2C9F U+2CA0 U+2CA1 U+2CA2 U+2CA3 U+2CA4 U+2CA5 " \o
    "U+2CA6 U+2CA7 U+2CA8 U+2CA9 U+2CAA U+2CAB U+2CAC U+2CAD U+2CAE U+2CAF U+2CB0 U+2CB1 U+2CB2 U+2CB3 U+2CB4 U+2CB5 U+2CB6 U+2CB7 U+2CB8 U+2CB9 " \o
    "U+2CBA U+2CBB U+2CBC U+2CBD U+2CBE U+2CBF U+2CC0 U+2CC1 U+2CC2 U+2CC3 U+2CC4 U+2CC5 U+2CC6 U+2CC7 U+2CC8 U+2CC9 U+2CCA U+2CCB U+2CCC U+2CCD " \o
    "U+2CCE U+2CCF U+2CD0 U+2CD1 U+2CD2 U+2CD3 U+2CD4 U+2CD5 U+2CD6 U+2CD7 U+2CD8 U+2CD9 U+2CDA U+2CDB U+2CDC U+2CDD U+2CDE U+2CDF U+2CE0 U+2CE1 " \o
    "U+2CE2 U+2CE3 U+2CEB U+2CEC U+2CED U+2CEE U+2CF2 U+2CF3 U+A640 U+A641 U+A642 U+A643 U+A644 U+A645 U+A646 U+A647 U+A648 U+A649 U+A64A U+A64B " \o
    "U+A64C U+A64D U+A64E U+A64F U+A650 U+A651 U+A652 U+A653 U+A654 U+A655 U+A656 U+A657 U+A658 U+A659 U+A65A U+A65B U+A65C U+A65D U+A65E U+A65F " \o
    "U+A660 U+A661 U+A662 U+A663 U+A664 U+A665 U+A666 U+A667 U+A668 U+A669 U+A66A U+A66B U+A66C U+A66D U+A680 U+A681 U+A682 U+A683 U+A684 U+A685 " \o
    "U+A686 U+A687 U+A688 U+A689 U+A68A U+A68B U+A68C U+A68D U+A68E U+A68F U+A690 U+A691 U+A692 U+A693 U+A694 U+A695 U+A696 U+A697 U+A698 U+A699 " \o
    "U+A69A U+A69B U+A722 U+A723 U+A724 U+A725 U+A726 U+A727 U+A728 U+A729 U+A72A U+A72B U+A72C U+A72D U+A72E U+A72F U+A732 U+A733 U+A734 U+A735 " \o
    "U+A736 U+A737 U+A738 U+A739 U+A73A U+A73B U+A73C U+A73D U+A73E U+A73F U+A740 U+A741 U+A742 U+A743 U+A744 U+A745 U+A746 U+A747 U+A748 U+A749 " \o
    "U+A74A U+A74B U+A74C U+A74D U+A74E U+A74F U+A750 U+A751 U+A752 U+A753 U+A754 U+A755 U+A756 U+A757 U+A758 U+A759 U+A75A U+A75B U+A75C U+A75D " \o
    "U+A75E U+A75F U+A760 U+A761 U+A762 U+A763 U+A764 U+A765 U+A766 U+A767 U+A768 U+A769 U+A76A U+A76B U+A76C U+A76D U+A76E U+A76F U+A779 U+A77A " \o
    "U+A77B U+A77C U+A77D U+1D79 U+A77E U+A77F U+A780 U+A781 U+A782 U+A783 U+A784 U+A785 U+A786 U+A787 U+A78B U+A78C U+A78D U+0265 U+A790 U+A791 " \o
    "U+A792 U+A793 U+A796 U+A797 U+A798 U+A799 U+A79A U+A79B U+A79C U+A79D U+A79E U+A79F U+A7A0 U+A7A1 U+A7A2 U+A7A3 U+A7A4 U+A7A5 U+A7A6 U+A7A7 " \o
    "U+A7A8 U+A7A9 U+A7AA U+0266 U+A7AB U+025C U+A7AC U+0261 U+A7AD U+026C U+A7AE U+026A U+A7B0 U+029E U+A7B1 U+0287 U+A7B2 U+029D U+A7B3 U+AB53 " \o
    "U+A7B4 U+A7B5 U+A7B6 U+A7B7 U+A7B8 U+A7B9 U+A7BA U+A7BB U+A7BC U+A7BD U+A7BE U+A7BF U+A7C0 U+A7C1 U+A7C2 U+A7C3 U+A7C4 U+A794 U+A7C5 U+0282 " \o
    "U+A7C6 U+1D8E U+A7C7 U+A7C8 U+A7C9 U+A7CA U+A7CB U+0264 U+A7CC U+A7CD U+A7CE U+A7CF U+A7D0 U+A7D1 U+A7D2 U+A7D3 U+A7D4 U+A7D5 U+A7D6 U+A7D7 " \o
    "U+A7D8 U+A7D9 U+A7DA U+A7DB U+A7DC U+019B U+A7F5 U+A7F6 U+FF21 U+FF41 U+FF22 U+FF42 U+FF23 U+FF43 U+FF24 U+FF44 U+FF25 U+FF45 U+FF26 U+FF46 " \o
    "U+FF27 U+FF47 U+FF28 U+FF48 U+FF29 U+FF49 U+FF2A U+FF4A U+FF2B U+FF4B U+FF2C U+FF4C U+FF2D U+FF4D U+FF2E U+FF4E U+FF2F U+FF4F U+FF30 U+FF50 " \o
    "U+FF31 U+FF51 U+FF32 U+FF52 U+FF33 U+FF53 U+FF34 U+FF54 U+FF35 U+FF55 U+FF36 U+FF56 U+FF37 U+FF57 U+FF38 U+FF58 U+FF39 U+FF59 U+FF3A U+FF5A " \o
    "U+10400U+10428U+10401U+10429U+10402U+1042AU+10403U+1042BU+10404U+1042CU+10405U+1042DU+10406U+1042EU+10407U+1042FU+10408U+10430U+10409U+10431" \o
    "U+1040AU+10432U+1040BU+10433U+1040CU+10434U+1040DU+10435U+1040EU+10436U+1040FU+10437U+10410U+10438U+10411U+10439U+10412U+1043AU+10413U+1043B" \o
    "U+10414U+1043CU+10415U+1043DU+10416U+1043EU+10417U+1043FU+10418U+10440U+10419U+10441U+1041AU+10442U+1041BU+10443U+1041CU+10444U+1041DU+10445" \o
    "U+1041EU+10446U+1041FU+10447U+10420U+10448U+10421U+10449U+10422U+1044AU+10423U+1044BU+10424U+1044CU+10425U+1044DU+10426U+1044EU+10427U+1044F" \o
    "U+104B0U+104D8U+104B1U+104D9U+104B2U+104DAU+104B3U+104DBU+104B4U+104DCU+104B5U+104DDU+104B6U+104DEU+104B7U+104DFU+104B8U+104E0U+104B9U+104E1" \o
    "U+104BAU+104E2U+104BBU+104E3U+104BCU+104E4U+104BDU+104E5U+104BEU+104E6U+104BFU+104E7U+104C0U+104E8U+104C1U+104E9U+104C2U+104EAU+104C3U+104EB" \o
    "U+104C4U+104ECU+104C5U+104EDU+104C6U+104EEU+104C7U+104EFU+104C8U+104F0U+104C9U+104F1U+104CAU+104F2U+104CBU+104F3U+104CCU+104F4U+104CDU+104F5" \o
    "U+104CEU+104F6U+104CFU+104F7U+104D0U+104F8U+104D1U+104F9U+104D2U+104FAU+104D3U+104FBU+10570U+10597U+10571U+10598U+10572U+10599U+10573U+1059A" \o
    "U+10574U+1059BU+10575U+1059CU+10576U+1059DU+10577U+1059EU+10578U+1059FU+10579U+105A0U+1057AU+105A1U+1057CU+105A3U+1057DU+105A4U+1057EU+105A5" \o
    "U+1057FU+105A6U+10580U+105A7U+10581U+105A8U+10582U+105A9U+10583U+105AAU+10584U+105ABU+10585U+105ACU+10586U+105ADU+10587U+105AEU+10588U+105AF" \o
    "U+10589U+105B0U+1058AU+105B1U+1058CU+105B3U+1058DU+105B4U+1058EU+105B5U+1058FU+105B6U+10590U+105B7U+10591U+105B8U+10592U+105B9U+10594U+105BB" \o
    "U+10595U+105BCU+10C80U+10CC0U+10C81U+10CC1U+10C82U+10CC2U+10C83U+10CC3U+10C84U+10CC4U+10C85U+10CC5U+10C86U+10CC6U+10C87U+10CC7U+10C88U+10CC8" \o
    "U+10C89U+10CC9U+10C8AU+10CCAU+10C8BU+10CCBU+10C8CU+10CCCU+10C8DU+10CCDU+10C8EU+10CCEU+10C8FU+10CCFU+10C90U+10CD0U+10C91U+10CD1U+10C92U+10CD2" \o
    "U+10C93U+10CD3U+10C94U+10CD4U+10C95U+10CD5U+10C96U+10CD6U+10C97U+10CD7U+10C98U+10CD8U+10C99U+10CD9U+10C9AU+10CDAU+10C9BU+10CDBU+10C9CU+10CDC" \o
    "U+10C9DU+10CDDU+10C9EU+10CDEU+10C9FU+10CDFU+10CA0U+10CE0U+10CA1U+10CE1U+10CA2U+10CE2U+10CA3U+10CE3U+10CA4U+10CE4U+10CA5U+10CE5U+10CA6U+10CE6" \o
    "U+10CA7U+10CE7U+10CA8U+10CE8U+10CA9U+10CE9U+10CAAU+10CEAU+10CABU+10CEBU+10CACU+10CECU+10CADU+10CEDU+10CAEU+10CEEU+10CAFU+10CEFU+10CB0U+10CF0" \o
    "U+10CB1U+10CF1U+10CB2U+10CF2U+10D50U+10D70U+10D51U+10D71U+10D52U+10D72U+10D53U+10D73U+10D54U+10D74U+10D55U+10D75U+10D56U+10D76U+10D57U+10D77" \o
    "U+10D58U+10D78U+10D59U+10D79U+10D5AU+10D7AU+10D5BU+10D7BU+10D5CU+10D7CU+10D5DU+10D7DU+10D5EU+10D7EU+10D5FU+10D7FU+10D60U+10D80U+10D61U+10D81" \o
    "U+10D62U+10D82U+10D63U+10D83U+10D64U+10D84U+10D65U+10D85U+118A0U+118C0U+118A1U+118C1U+118A2U+118C2U+118A3U+118C3U+118A4U+118C4U+118A5U+118C5" \o
    "U+118A6U+118C6U+118A7U+118C7U+118A8U+118C8U+118A9U+118C9U+118AAU+118CAU+118ABU+118CBU+118ACU+118CCU+118ADU+118CDU+118AEU+118CEU+118AFU+118CF" \o
    "U+118B0U+118D0U+118B1U+118D1U+118B2U+118D2U+118B3U+118D3U+118B4U+118D4U+118B5U+118D5U+118B6U+118D6U+118B7U+118D7U+118B8U+118D8U+118B9U+118D9" \o
    "U+118BAU+118DAU+118BBU+118DBU+118BCU+118DCU+118BDU+118DDU+118BEU+118DEU+118BFU+118DFU+16E40U+16E60U+16E41U+16E61U+16E42U+16E62U+16E43U+16E63" \o
    "U+16E44U+16E64U+16E45U+16E65U+16E46U+16E66U+16E47U+16E67U+16E48U+16E68U+16E49U+16E69U+16E4AU+16E6AU+16E4BU+16E6BU+16E4CU+16E6CU+16E4DU+16E6D" \o
    "U+16E4EU+16E6EU+16E4FU+16E6FU+16E50U+16E70U+16E51U+16E71U+16E52U+16E72U+16E53U+16E73U+16E54U+16E74U+16E55U+16E75U+16E56U+16E76U+16E57U+16E77" \o
    "U+16E58U+16E78U+16E59U+16E79U+16E5AU+16E7AU+16E5BU+16E7BU+16E5CU+16E7CU+16E5DU+16E7DU+16E5EU+16E7EU+16E5FU+16E7FU+16EA0U+16EBBU+16EA1U+16EBC" \o
    "U+16EA2U+16EBDU+16EA3U+16EBEU+16EA4U+16EBFU+16EA5U+16EC0U+16EA6U+16EC1U+16EA7U+16EC2U+16EA8U+16EC3U+16EA9U+16EC4U+16EAAU+16EC5U+16EABU+16EC6" \o
    "U+16EACU+16EC7U+16EADU+16EC8U+16EAEU+16EC9U+16EAFU+16ECAU+16EB0U+16ECBU+16EB1U+16ECCU+16EB2U+16ECDU+16EB3U+16ECEU+16EB4U+16ECFU+16EB5U+16ED0" \o
    "U+16EB6U+16ED1U+16EB7U+16ED2U+16EB8U+16ED3U+1E900U+1E922U+1E901U+1E923U+1E902U+1E924U+1E903U+1E925U+1E904U+1E926U+1E905U+1E927U+1E906U+1E928" \o
    "U+1E907U+1E929U+1E908U+1E92AU+1E909U+1E92BU+1E90AU+1E92CU+1E90BU+1E92DU+1E90CU+1E92EU+1E90DU+1E92FU+1E90EU+1E930U+1E90FU+1E931U+1E910U+1E932" \o
    "U+1E911U+1E933U+1E912U+1E934U+1E913U+1E935U+1E914U+1E936U+1E915U+1E937U+1E916U+1E938U+1E917U+1E939U+1E918U+1E93AU+1E919U+1E93BU+1E91AU+1E93C" \o
    "U+1E91BU+1E93DU+1E91CU+1E93EU+1E91DU+1E93FU+1E91EU+1E940U+1E91FU+1E941U+1E920U+1E942U+1E921U+1E943"

\* The function of a table of pairs: the first of a pair to its second
PairTable(p) ==
    [ch \in {p[2 * i - 1] : i \in 1..(Len(p) \div 2)} |->
        p[2 * (CHOOSE i \in 1..(Len(p) \div 2) : p[2 * i - 1] = ch)]]

\* char::to_lowercase of those characters
ToLowercase == PairTable(Fields(LowercaseText))

\* A character's image under a table, itself when the table lacks it
MappedBy(f, ch) == IF ch \in DOMAIN f THEN <<f[ch]>> ELSE <<ch>>

\* char::to_lowercase: the characters the iterator yields. U+0130 alone
\* yields two, "i" and the combining dot above U+0307.
LowerUni(ch) ==
    IF ch = "U+0130" THEN <<"i", "U+0307">> ELSE MappedBy(ToLowercase, ch)

\* Mutant: the names are compared as they are written.
eq_exact(a, b) == a = b

\* str::eq_ignore_ascii_case
eq_ignore_ascii_case(a, b) ==
    /\ Len(a) = Len(b)
    /\ \A i \in 1..Len(a) : LowerAscii(a[i]) = LowerAscii(b[i])

DropFirst(s, n) == SubSeq(s, n + 1, Len(s))

\* A nom parser takes the input left by the parser before it and leaves
\* Some(the rest of the input), NoneOpt (Err::Error) or ParsePanic (the call
\* unwound); after a parser that failed or unwound no parser runs. A tuple
\* of parsers is their nesting.
ParsePanic == [some |-> FALSE, panic |-> TRUE]

IsPanic(r) == ~r.some /\ "panic" \in DOMAIN r

\* A result that ends an alt or an opt: the parser succeeded, or it unwound.
Decided(r) == r.some \/ IsPanic(r)

\* nom::bytes::complete::tag: the bytes of the tag, which are whole characters
Tag(t, r) ==
    IF ~r.some THEN r
    ELSE IF Len(r.val) >= Len(t) /\ SubSeq(r.val, 1, Len(t)) = t
    THEN Some(DropFirst(r.val, Len(t)))
    ELSE NoneOpt

\* <&str as Compare<&str>>::compare_no_case: the characters of the input and
\* of the tag are paired up to the shorter of the two and compared by their
\* to_lowercase; then the lengths in bytes decide.
compare_no_case(inp, t) ==
    IF \E i \in 1..(IF Len(inp) < Len(t) THEN Len(inp) ELSE Len(t)) :
          LowerUni(inp[i]) # LowerUni(t[i])
    THEN "Error"
    ELSE IF str_len(inp) >= str_len(t) THEN "Ok" ELSE "Incomplete"

\* str::split_at(mid).1 for mid <= str_len(inp): the text after the first mid
\* bytes; a panic when mid is not on a character boundary.
RECURSIVE split_at(_, _)
split_at(inp, mid) ==
    IF mid = 0 THEN Some(inp)
    ELSE IF inp = <<>> \/ len_utf8(Head(inp)) > mid THEN ParsePanic
    ELSE split_at(Tail(inp), mid - len_utf8(Head(inp)))

\* nom::bytes::complete::tag_no_case: on CompareResult::Ok the input is cut
\* by take_split at the length of the tag in bytes.
TagNoCase(t, r) ==
    IF ~r.some THEN r
    ELSE IF compare_no_case(r.val, t) = "Ok" THEN split_at(r.val, str_len(t))
    ELSE NoneOpt

\* nom::character::complete::space0 and space1: blanks and tabs
RECURSIVE SkipSpace(_)
SkipSpace(inp) ==
    IF inp # <<>> /\ Head(inp) \in {" ", "\t"} THEN SkipSpace(Tail(inp)) ELSE inp

Space0(r) == IF r.some THEN Some(SkipSpace(r.val)) ELSE r

Space1(r) ==
    IF ~r.some THEN r
    ELSE IF r.val # <<>> /\ Head(r.val) \in {" ", "\t"}
    THEN Some(SkipSpace(r.val))
    ELSE NoneOpt

\* nom::combinator::eof
Eof(r) == IF r.some /\ r.val # <<>> THEN NoneOpt ELSE r

\* nom::branch::alt of two parsers' results on the same input: the second
\* parser runs when the first returned Err::Error
Alt(r1, r2) == IF Decided(r1) THEN r1 ELSE r2

\* nom::combinator::opt: got is the parser's result on r; a failed parser
\* consumes nothing
Opt(got, r) == IF Decided(got) THEN got ELSE r

\* alt((tag_no_case("a"), tag_no_case("er")))
AOrEr(r) == Alt(TagNoCase(<<"a">>, r), TagNoCase(<<"e", "r">>, r))

\* tag_no_case("stra"), alt((tag("ß"), tag_no_case("ss"))), tag_no_case("e")
Strasse(r) ==
    LET stra == TagNoCase(<<"s", "t", "r", "a">>, r) IN
    TagNoCase(<<"e">>, Alt(Tag(<<"ß">>, stra), TagNoCase(<<"s", "s">>, stra)))

parse_academica(r) ==
    LET aca == AOrEr(TagNoCase(<<"a", "c">>, r)) IN
    Opt(AOrEr(TagNoCase(<<"d", "e", "m", "i", "c">>, aca)), aca)

parse_ahorn(r) ==
    LET ahorn == TagNoCase(<<"a", "h", "o", "r", "n">>, r)
        info == TagNoCase(<<"i", "n", "f", "o">>, r)
        rmatik == Opt(TagNoCase(<<"r", "m", "a", "t", "i", "k">>, info), info)
    IN Alt(Opt(Strasse(ahorn), ahorn),
           Alt(Opt(TagNoCase(<<"z", "e", "n", "t", "r", "u", "m">>, rmatik), rmatik),
               TagNoCase(<<"i", "z">>, r)))

parse_bayernallee(r) == TagNoCase(<<"b", "a", "y", "e", "r", "n", "a", "l", "l", "e", "e">>, r)

parse_bistro(r) ==
    LET bistro == TagNoCase(<<"b", "i", "s", "t", "r", "o">>, r) IN
    Alt(TagNoCase(<<"C">>, Space0(TagNoCase(<<"s", "u", "p", "e", "r">>, r))),
        Opt(TagNoCase(<<"t", "e", "m", "p", "l", "e", "r", "g", "r", "a", "b", "e", "n">>, Space1(bistro)), bistro))

parse_eupener(r) ==
    LET eupener == TagNoCase(<<"e", "u", "p", "e", "n", "e", "r">>, r) IN
    Opt(Strasse(Space1(eupener)), eupener)

parse_juelich(r) == TagNoCase(<<"j", "ü", "l", "i", "c", "h">>, r)

parse_kmac(r) ==
    LET k == TagNoCase(<<"k">>, r) IN
    Alt(TagNoCase(<<"k", "m", "a", "c">>, r),
        Alt(TagNoCase(<<"m", "a", "g">>, Alt(Tag(<<"-">>, k), Space0(k))),
            TagNoCase(<<"M", "a", "g", "n", "u", "s", "s", "e", "n">>, Space1(TagNoCase(<<"K", "e", "v", "i", "n">>, r)))))

parse_suedpark(r) ==
    LET sued == TagNoCase(<<"s", "ü", "d">>, r) IN Opt(TagNoCase(<<"p", "a", "r", "k">>, sued), sued)

parse_vita(r) == Alt(AOrEr(TagNoCase(<<"v", "i", "t">>, r)), TagNoCase(<<"m", "e", "l", "a", "t", "e", "n">>, r))

\* What a canteen's parser returns: the Canteen with the rest of the input
\* when it succeeded, its failure or its panic otherwise.
Named(canteen, r) == IF r.some THEN Some(<<canteen, r>>) ELSE r

\* The alt over the nine canteens: the parsers run in order up to the first
\* that succeeds, as Some(<<the Canteen, the rest of the input>>), or unwinds.
CanteenAlt(r) ==
    IF ~r.some THEN r
    ELSE IF Decided(parse_academica(r)) THEN Named("Academica", parse_academica(r))
    ELSE IF Decided(parse_ahorn(r)) THEN Named("Ahorn", parse_ahorn(r))
    ELSE IF Decided(parse_bayernallee(r)) THEN Named("Bayernallee", parse_bayernallee(r))
    ELSE IF Decided(parse_bistro(r)) THEN Named("Bistro", parse_bistro(r))
    ELSE IF Decided(parse_eupener(r)) THEN Named("Eupener", parse_eupener(r))
    ELSE IF Decided(parse_juelich(r)) THEN Named("Jülich", parse_juelich(r))
    ELSE IF Decided(parse_kmac(r)) THEN Named("KMAC", parse_kmac(r))
    ELSE IF Decided(parse_suedpark(r)) THEN Named("Süd", parse_suedpark(r))
    ELSE IF Decided(parse_vita(r)) THEN Named("Vita", parse_vita(r))
    ELSE NoneOpt

\* The end of canteen::parser::parse: after the name, blanks or the end of
\* the input. Some(the Canteen), NoneOpt, or the panic of the name's parser.
Terminated(name) ==
    IF ~name.some THEN name
    ELSE IF Alt(Space1(name.val[2]), Eof(name.val[2])).some THEN Some(name.val[1])
    ELSE NoneOpt

\* canteen::parser::parse: an optional "mensa" and blanks, a canteen name, and
\* then blanks or the end of the input. Some(the Canteen), NoneOpt
\* (Err::Error), or ParsePanic.
parse_canteen(inp) ==
    Terminated(CanteenAlt(Opt(Space1(TagNoCase(<<"m", "e", "n", "s", "a">>, Some(inp))), Some(inp))))

\* The tags of day_of_week::parser::parse_day_of_week in the order of its alt.
DayTags ==
    << <<<<"h", "e", "u", "t", "e">>, "Today">>, <<<<"h", "o", "i", "d", "e">>, "Today">>,
       <<<<"m", "o", "r", "g", "e", "n">>, "Tomorrow">>,
       <<<<"m", "o", "n", "t", "a", "g">>, "Monday">>,
       <<<<"d", "i", "e", "n", "s", "t", "a", "g">>, "Tuesday">>, <<<<"s", "c", "h", "n", "i", "t", "z", "e", "l", "d", "i", "e", "n", "s", "t", "a", "g">>, "Tuesday">>,
       <<<<"m", "i", "t", "t", "w", "o", "c", "h">>, "Wednesday">>, <<<<"m", "e", "t", "t", "w", "o", "c", "h">>, "Wednesday">>,
       <<<<"d", "o", "n", "n", "e", "r", "s", "t", "a", "g">>, "Thursday">>, <<<<"v", "i", "z", "e", "f", "r", "e", "i", "t", "a", "g">>, "Thursday">>,
       <<<<"f", "r", "e", "i", "t", "a", "g">>, "Friday">> >>

\* The tag of DayTags that ends the alt on an input: the first whose
\* tag_no_case succeeds or unwinds.
FirstDayTag(inp) ==
    CHOOSE i \in 1..Len(DayTags) :
        /\ Decided(TagNoCase(DayTags[i][1], Some(inp)))
        /\ \A j \in 1..(i - 1) : ~Decided(TagNoCase(DayTags[j][1], Some(inp)))

\* parse_day_of_week: Some(the DayOfWeek of the first tag the input starts
\* with), NoneOpt, or ParsePanic.
parse_day_of_week(inp) ==
    IF \E i \in 1..Len(DayTags) : Decided(TagNoCase(DayTags[i][1], Some(inp)))
    THEN IF TagNoCase(DayTags[FirstDayTag(inp)][1], Some(inp)).some
         THEN Some(DayTags[FirstDayTag(inp)][2])
         ELSE ParsePanic
    ELSE NoneOpt

\* parse_cancel
parse_cancel(inp) == TagNoCase(<<"c", "a", "n", "c", "e", "l">>, Some(inp))

\* str::splitn(2, ' '): the text before the first blank and, if there is a
\* blank, the text after it.
SplitN2(s) ==
    IF \E i \in 1..Len(s) : s[i] = " "
    THEN LET i == CHOOSE i \in 1..Len(s) :
                     s[i] = " " /\ \A j \in 1..(i - 1) : s[j] # " "
         IN <<SubSeq(s, 1, i - 1), DropFirst(s, i)>>
    ELSE <<s>>

\* The Daily arm of Command::parse: the Command of the day and of what
\* opt(peek(Canteen::parser())) gives on the trimmed arguments; a panic of
\* the canteen's parser unwinds the call.
Command_Daily(day_of_week, canteen) ==
    IF IsPanic(canteen) THEN XPanic
    ELSE XOk([cmd |-> "Daily", day_of_week |-> day_of_week, canteen |-> canteen])

\* Command::parse
Command_parse(input, bot_username) ==
    LET words == SplitN2(input)
        command_with_botname == Split(words[1], "@")
        command_text == command_with_botname[1]
        args_text == IF Len(words) = 2 THEN words[2] ELSE <<>>
    IN IF /\ Len(command_with_botname) >= 2
          /\ ~eq_ignore_ascii_case(command_with_botname[2], bot_username)
       THEN XErr([kind |-> "WrongBotName", name |-> command_with_botname[2]])
       ELSE IF input = <<>> \/ Head(input) # "/"
       THEN XErr([kind |-> "IncorrectFormat"])
       ELSE LET rest == Tail(input) IN
            IF IsPanic(parse_cancel(rest)) THEN XPanic
            ELSE IF parse_cancel(rest).some
            THEN XOk([cmd |-> "Cancel"])
            ELSE IF IsPanic(parse_day_of_week(rest)) THEN XPanic
            ELSE IF parse_day_of_week(rest).some
            THEN Command_Daily(parse_day_of_week(rest).val, parse_canteen(Trim(args_text)))
            ELSE XErr([kind |-> "UnknownCommand", text |-> command_text])

\* -------------------------------------------------- the commands parsed
CmdWords ==
    { <<"/", "h", "e", "u", "t", "e">>,
      <<"/", "H", "E", "U", "T", "E">>,
      <<"/", "m", "o", "r", "g", "e", "n">>,
      <<"/", "c", "a", "n", "c", "e", "l">>,
      <<"/", "s", "c", "h", "n", "i", "t", "z", "e", "l", "d", "i", "e", "n", "s", "t", "a", "g">>,
      <<"/", "f", "o", "o">>,
      <<"h", "e", "u", "t", "e">>,
      <<"/", "h", "e", "u", "t", "e", "x", "y", "z">>,
      <<"/">> }

\* What follows the command in its word.
CmdSuffixes ==
    { <<>>,
      <<"@", "m", "y", "b", "o", "t", "n", "a", "m", "e">>,
      <<"@", "M", "y", "B", "o", "t", "N", "a", "m", "e">>,
      <<"@", "o", "t", "h", "e", "r", "b", "o", "t">>,
      <<"@">>,
      <<"@", "m", "y", "b", "o", "t", "n", "a", "m">>,
      <<"@", "m", "y", "b", "o", "t", "n", "a", "m", "e", "@", "x">>,
      <<"@", "x", "@", "m", "y", "b", "o", "t", "n", "a", "m", "e">> }

\* What follows the command word.
CmdArgs ==
    { <<>>,
      <<" ">>,
      <<" ", "v", "i", "t", "a">>,
      <<" ", " ", "M", "e", "n", "s", "a", " ", " ", "A", "c", "a", "d", "e", "m", "i", "c", "a", " ">>,
      <<" ", "a", "h", "o", "r", "n", "s", "t", "r", "a", "s", "s", "e">>,
      <<" ", "s", "u", "p", "e", "r", " ", "c">>,
      <<" ", "x", "y", "z">>,
      <<" ", "v", "i", "t", "a", "x">>,
      <<" ", "J", "Ü", "L", "I", "C", "H">>,
      <<" ", "k", "-", "m", "a", "g">>,
      <<" ", "U+212A", "-", "m", "a", "g">>,           \* with the Kelvin sign U+212A
      <<" ", "U+212A", "m">>,
      <<" ", "i", "n", "f", "o", "r", "m", "a", "t", "i", "U+212A">>,
      <<" ", "m", "e", "n", "s", "a", "\t", "s", "ü", "d", "p", "a", "r", "U+212A", " ">>,
      <<" ", " ", "v", "i", "t", "a", "U+2003">> }       \* a no-break space, "vita", an em space

BotNames ==
    { <<"m", "y", "b", "o", "t", "n", "a", "m", "e">>,
      <<"o", "t", "h", "e", "r", "b", "o", "t">> }

CmdInputs == {w \o s \o a : w \in CmdWords, s \in CmdSuffixes, a \in CmdArgs}

InitCmd ==
    /\ InitCache
    /\ FetchOff
    /\ RenderOff
    /\ TgOff
    /\ cmd \in [input : CmdInputs, bot_username : BotNames]
    /\ parsed = [tag |-> None]
    /\ cpc = "start"

\* Command::parse(text, &bot_name)
ParseCommand ==
    /\ cpc = "start"
    /\ parsed' = Command_parse(cmd.input, cmd.bot_username)
    /\ cpc' = "done"
    /\ UNCHANGED cmd
    /\ UNCHANGED <<cacheVars, fetchVars, renderVars, tgVars>>

NextCmd == ParseCommand

SpecCmd == InitCmd /\ [][NextCmd]_vars
\* ---------------------------------------------- DayOfWeek -> NaiveDate
\* A date is its number of days since a Monday, so that
\* Weekday::num_days_from_monday of a date is the date modulo 7.
MaxDay == 13

\* enum DayOfWeek
DayOfWeeks == {"Today", "Tomorrow", "Monday", "Tuesday", "Wednesday", "Thursday", "Friday"}

\* Datelike::weekday().num_days_from_monday() of a date
num_days_from_monday(date) == date % 7

\* Rust's % on i32: the remainder has the sign of the dividend.
RemI32(a, b) == IF a >= 0 THEN a % b ELSE 0 - ((0 - a) % b)

\* chrono::LocalResult of a wall-clock time in the zone of Local: one
\* instant, two (the clocks are set back over it) or none (the clocks are set
\* forward over it).
LocalResults == {"Single", "Ambiguous", "None"}

\* impl From<DayOfWeek> for chrono::Weekday, as num_days_from_monday of
\* the Weekday; clock is the date Local::now() gives when the arm reads it.
\* Tomorrow adds Days::new(1) to the DateTime<Local>: next_local is what the
\* zone makes of the same wall-clock time a day later, and the addition
\* panics ("`DateTime + Days` out of range") unless that is one instant.
Weekday_from(dow, clock, next_local) ==
    CASE dow = "Today" -> XOk(num_days_from_monday(clock))
      [] dow = "Tomorrow" ->
            IF next_local = "Single" THEN XOk(num_days_from_monday(clock + 1)) ELSE XPanic
      [] dow = "Monday" -> XOk(0)
      [] dow = "Tuesday" -> XOk(1)
      [] dow = "Wednesday" -> XOk(2)
      [] dow = "Thursday" -> XOk(3)
      [] dow = "Friday" -> XOk(4)

\* The block that computes `offset`: (w2 - w1) % 7, plus 7 when negative.
\* The value is in 0..6, which the cast to u64 leaves as it is.
day_offset(w1, w2) ==
    LET r == RemI32(w2 - w1, 7)
    IN IF r < 0 THEN r + 7 ELSE r

\* impl From<DayOfWeek> for chrono::NaiveDate. The clock is read once for
\* `now` (date first) and, by Today and Tomorrow, once more inside
\* dow.into() (date second); a panic of dow.into() unwinds the conversion.
NaiveDate_from(dow, first, second, next_local) ==
    LET weekday == Weekday_from(dow, second, next_local)
    IN IF weekday.tag = "Panic" THEN XPanic
       ELSE XOk(first + day_offset(num_days_from_monday(first), weekday.val))

\* Whether the conversion of dow reads the clock a second time.
ReadsClockAgain(dow) == dow \in {"Today", "Tomorrow"}

\* The dates a second read of the clock may give: the same day, or the next
\* one when midnight has passed since the first read.
LaterReads(first) == {d \in {first, first + 1} : d <= MaxDay + 1}

\* The dates the clock may give inside dow.into() when `now` was read on
\* the date first.
ClockReads(dow, first) == IF ReadsClockAgain(dow) THEN LaterReads(first) ELSE {first}

InitDate ==
    /\ InitCache
    /\ FetchOff
    /\ RenderOff
    /\ CmdOff
    /\ today \in 0..MaxDay
    /\ dialogue = [c \in Chats |-> [some |-> FALSE]]
    /\ incoming = [c \in Chats |-> [pc |-> "idle"]]
    /\ handled = [c \in Chats |-> [endpoint |-> None]]
    /\ nextId = 1
    /\ conv \in [pc : {"start"}, dow : DayOfWeeks]

\* let date: NaiveDate = dow.into(), when it returns
ConvertDay ==
    /\ conv.pc = "start"
    /\ \E second \in ClockReads(conv.dow, today), next_local \in LocalResults :
        LET date == NaiveDate_from(conv.dow, today, second, next_local)
        IN /\ date.tag = "Ok"
           /\ conv' = [pc |-> "done", dow |-> conv.dow, first |-> today, second |-> second,
                       date |-> date.val]
           /\ today' = second
    /\ UNCHANGED <<dialogue, incoming, handled, nextId>>
    /\ UNCHANGED <<cacheVars, fetchVars, renderVars, cmdVars>>

\* let date: NaiveDate = dow.into(), when it unwinds: no date comes of it
ConvertDayUnwinds ==
    /\ conv.pc = "start"
    /\ \E second \in ClockReads(conv.dow, today), next_local \in LocalResults :
        /\ NaiveDate_from(conv.dow, today, second, next_local).tag = "Panic"
        /\ conv' = [pc |-> "panicked", dow |-> conv.dow, first |-> today, second |-> second,
                    next_local |-> next_local]
        /\ today' = second
    /\ UNCHANGED <<dialogue, incoming, handled, nextId>>
    /\ UNCHANGED <<cacheVars, fetchVars, renderVars, cmdVars>>

NextDate ==
    \/ ConvertDay
    \/ ConvertDayUnwinds

SpecDate == InitDate /\ [][NextDate]_vars

\* ------------------------------------------------- the dialogue schema
MaxMsgs == 3

\* enum DialogueState
DialogueState_Noop == [tag |-> "Noop"]

DialogueState_Daily(message_id, args) == [tag |-> "Daily", message_id |-> message_id, args |-> args]

\* struct DailyArgs of a parsed Daily command
DailyArgs(command) == [day_of_week |-> command.day_of_week, canteen |-> command.canteen]

\* Dialogue::get_or_default: the chat's stored state, Noop when none is stored
get_or_default(store, chat) ==
    IF store[chat].some THEN store[chat].val ELSE DialogueState_Noop

\* Dialogue::update(state)
dialogue_update(store, chat, state) == [store EXCEPT ![chat] = Some(state)]

\* Dialogue::reset(): update(DialogueState::default())
dialogue_reset(store, chat) == dialogue_update(store, chat, DialogueState_Noop)

\* Dialogue::exit(): the chat's state is removed from the storage
dialogue_exit(store, chat) == [store EXCEPT ![chat] = NoneOpt]

\* enum Canteen
Canteens ==
    {"Academica", "Ahorn", "Bayernallee", "Bistro", "Eupener", "Jülich", "KMAC", "Süd", "Vita"}

\* proj::dow_to_naive_date: (dow.into(), canteen)
dow_to_naive_date(dow, first, second, next_local) ==
    NaiveDate_from(dow, first, second, next_local)

\* The branches of handle_daily_command after map_async(fetch_daily_menu):
\* the endpoint that takes what fetcher.fetch_daily_menu returned, a Menu, a
\* FetcherError::CanteenClosed, or any other error.
handle_daily_command(fetched) ==
    IF fetched.ok THEN "menu_by_date"
    ELSE IF fetched.val = "CanteenClosed" THEN "err_canteen_closed"
    ELSE "generic_failure"

\* The bot's username
Me_username == <<"m", "y", "b", "o", "t", "n", "a", "m", "e">>

\* ------------------------------------------------ the messages received
TextMorgen == <<"/", "m", "o", "r", "g", "e", "n">>

TextFreitag == <<"/", "f", "r", "e", "i", "t", "a", "g">>

TextMorgenVita == <<"/", "m", "o", "r", "g", "e", "n", " ", "v", "i", "t", "a">>

TextCancel == <<"/", "c", "a", "n", "c", "e", "l">>

TextVita == <<"v", "i", "t", "a">>

TextHallo == <<"h", "a", "l", "l", "o">>

\* "K-mag" written with the Kelvin sign U+212A, alone and after "/heute "
TextKelvinMag == <<"U+212A", "-", "m", "a", "g">>

TextHeuteKelvinMag == <<"/", "h", "e", "u", "t", "e", " ", "U+212A", "-", "m", "a", "g">>

\* Message::text() of the messages the chats send: None for a message
\* without text.
Texts ==
    {NoneOpt} \cup {Some(t) : t \in {TextMorgen, TextFreitag, TextMorgenVita, TextCancel,
                                     TextVita, TextHallo, TextKelvinMag, TextHeuteKelvinMag}}

\* Result::ok of a Command::parse that returned; its panic otherwise
ResultOk(r) ==
    IF r.tag = "Panic" THEN ParsePanic
    ELSE IF r.tag = "Ok" THEN Some(r.val)
    ELSE NoneOpt

\* Command::parse(text, &bot_name).ok() of every text received
CommandOf ==
    [t \in Texts |->
        IF ~t.some THEN NoneOpt ELSE ResultOk(Command_parse(t.val, Me_username))]

\* Canteen::parser().parse(text.trim()).ok() of every text received; its
\* panic when the parser unwinds
CanteenOf ==
    [t \in Texts |-> IF ~t.some THEN NoneOpt ELSE parse_canteen(Trim(t.val))]

\* The filter_map of command_handler: the Command the message's text parses to
command_handler(message) == CommandOf[message.text]

\* proj::daily_verify_args
daily_verify_args(args) ==
    IF args.canteen.some THEN Some(<<args.day_of_week, args.canteen.val>>) ELSE NoneOpt

\* proj::parse_canteen_from_msg
parse_canteen_from_msg(message) == CanteenOf[message.text]

\* A route of the schema that fetches nothing.
Branch(name) == [branch |-> name, reply_id |-> 0, day_of_week |-> None, canteen |-> None]

\* handler::schema on an update taken in: the message goes to the first
\* branch that takes it, command_handler, the branch of
\* DialogueState::Daily, or noop_handler. `update` holds the message, the
\* state dialogue::enter read, and what the two filter_maps give on it:
\* parse_canteen_from_msg runs only for a message that is no command, in
\* state Daily. The route is the branch and, for handle_daily_command, the
\* reply_id, the DayOfWeek and the Canteen handed to it. A filter_map that
\* panics unwinds the handler.
schema(update) ==
    IF IsPanic(update.command)
    THEN Branch("command_handler")
    ELSE IF update.command.some /\ update.command.val.cmd = "Daily"
    THEN IF daily_verify_args(DailyArgs(update.command.val)).some
         THEN [branch |-> "handle_daily_command", reply_id |-> update.message.id,
               day_of_week |-> update.command.val.day_of_week,
               canteen |-> update.command.val.canteen.val]
         ELSE Branch("ask_canteen")
    ELSE IF update.command.some
    THEN Branch("cancel")
    ELSE IF update.state.tag = "Daily" /\ IsPanic(update.named)
    THEN Branch("parse_canteen_from_msg")
    ELSE IF update.state.tag = "Daily" /\ update.named.some
    THEN [branch |-> "handle_daily_command", reply_id |-> update.state.message_id,
          day_of_week |-> update.state.args.day_of_week,
          canteen |-> IF update.state.args.canteen.some
                      THEN update.state.args.canteen.val
                      ELSE update.named.val]
    ELSE Branch("noop_handler")

\* InMemStorage::new(): the storage is empty and no update is being
\* handled. No HtmlMenuFetcherWithCache is at work: main registers an
\* HtmlMenuFetcher as the dispatcher's dependency and none with a store.
InitTg ==
    /\ CacheOff
    /\ FetchOff
    /\ RenderOff
    /\ CmdOff
    /\ today = MaxDay - 1
    /\ dialogue = [c \in Chats |-> NoneOpt]
    /\ incoming = [c \in Chats |-> [pc |-> "idle"]]
    /\ handled = [c \in Chats |-> [endpoint |-> None]]
    /\ nextId = 1
    /\ conv = [pc |-> "off"]

\* The dispatcher takes in a message of a chat whose handler is not busy
\* (the updates of one chat are handled one after the other, those of
\* different chats side by side): dialogue::enter reads the chat's state,
\* and the filter_maps of the schema parse the text.
Receive(c) ==
    /\ incoming[c].pc = "idle"
    /\ nextId <= MaxMsgs
    /\ \E text \in Texts :
        incoming' = [incoming EXCEPT ![c] =
                        [pc |-> "routed",
                         message |-> [chat |-> c, id |-> nextId, text |-> text],
                         state |-> get_or_default(dialogue, c),
                         command |-> command_handler([text |-> text]),
                         named |-> parse_canteen_from_msg([text |-> text]),
                         fetch |-> NoneOpt, returned |-> NoResult,
                         reply_id |-> 0, answer |-> None]]
    /\ handled' = [handled EXCEPT ![c] = [endpoint |-> None]]
    /\ nextId' = nextId + 1
    /\ UNCHANGED <<today, dialogue, conv>>
    /\ UNCHANGED <<cacheVars, fetchVars, renderVars, cmdVars>>

\* The schema has routed the update of chat c to the branch `name`.
Routed(c, name) ==
    /\ incoming[c].pc = "routed"
    /\ schema(incoming[c]).branch = name

\* The handler of chat c ends in `name`: the message it sent (None when
\* none went out), the message that one replies to, and its HandlerResult
\* (Panic when its task unwound).
Ends(c, name, answer, reply_to, returned) ==
    /\ handled' = [handled EXCEPT ![c] =
                      [endpoint |-> name, message |-> incoming[c].message,
                       state |-> incoming[c].state, fetch |-> incoming[c].fetch,
                       answer |-> answer, reply_to |-> reply_to, result |-> returned]]
    /\ incoming' = [incoming EXCEPT ![c] = [pc |-> "idle"]]

\* bot.send_message(..).reply_to_message_id(reply_to).await? as the last
\* await of the endpoint `name`: the message goes out, or the error of the
\* request is the handler's result.
SendsLast(c, name, answer, reply_to) ==
    \E sendOk \in BOOLEAN :
        IF sendOk THEN Ends(c, name, answer, reply_to, "Ok")
        ELSE Ends(c, name, None, 0, "Err")

\* What fetcher.fetch_daily_menu(date, canteen) returns to
\* proj::fetch_daily_menu, whichever fetcher the dispatcher hands to it: a
\* Menu, the two FetcherErrors, or a transport error.
TgResults == {Ok("m1"), Err("CanteenClosed"), Err("ElementNotFound"), Err("Transport")}

\* fetcher.fetch_daily_menu(date, canteen) of chat c's handler returned, and
\* the branches of handle_daily_command give its result to endpoint `name`.
Fetched(c, name) ==
    /\ incoming[c].pc = "fetched"
    /\ handle_daily_command(incoming[c].returned) = name

\* proj::fetch_daily_menu: fetcher.fetch_daily_menu(date, canteen).await
\* completes, with a Menu or an error.
FetchDailyMenu(c) ==
    /\ incoming[c].pc = "fetch_daily_menu"
    /\ \E fetched \in TgResults :
        incoming' = [incoming EXCEPT ![c].pc = "fetched", ![c].returned = fetched]
    /\ UNCHANGED <<today, dialogue, handled, nextId, conv>>
    /\ UNCHANGED <<cacheVars, fetchVars, renderVars, cmdVars>>

\* The task of the handler panics inside Command::parse: nothing is sent
\* and the storage is left as it is.
CommandPanics(c) ==
    /\ Routed(c, "command_handler")
    /\ Ends(c, "command_handler", None, 0, "Panic")
    /\ UNCHANGED <<today, dialogue, nextId, conv>>
    /\ UNCHANGED <<cacheVars, fetchVars, renderVars, cmdVars>>

\* The task of the handler panics inside parse_canteen_from_msg.
CanteenPanics(c) ==
    /\ Routed(c, "parse_canteen_from_msg")
    /\ Ends(c, "parse_canteen_from_msg", None, 0, "Panic")
    /\ UNCHANGED <<today, dialogue, nextId, conv>>
    /\ UNCHANGED <<cacheVars, fetchVars, renderVars, cmdVars>>

NoopHandler(c) ==
    /\ Routed(c, "noop_handler")
    /\ Ends(c, "noop_handler", None, 0, "Ok")
    /\ UNCHANGED <<today, dialogue, nextId, conv>>
    /\ UNCHANGED <<cacheVars, fetchVars, renderVars, cmdVars>>

\* endpoint::ask_canteen up to its first await: dialogue.update(Daily {
\* message_id: reply_id, args }), with the command's message id.
AskCanteen(c) ==
    /\ Routed(c, "ask_canteen")
    /\ dialogue' = dialogue_update(dialogue, c,
                       DialogueState_Daily(incoming[c].message.id,
                                           DailyArgs(incoming[c].command.val)))
    /\ incoming' = [incoming EXCEPT ![c].pc = "ask_canteen"]
    /\ UNCHANGED <<today, handled, nextId, conv>>
    /\ UNCHANGED <<cacheVars, fetchVars, renderVars, cmdVars>>

\* endpoint::ask_canteen: the question is sent in reply to the command.
AskCanteenSends(c) ==
    /\ incoming[c].pc = "ask_canteen"
    /\ SendsLast(c, "ask_canteen", "ask", incoming[c].message.id)
    /\ UNCHANGED <<today, dialogue, nextId, conv>>
    /\ UNCHANGED <<cacheVars, fetchVars, renderVars, cmdVars>>

\* endpoint::cancel up to its first await: dialogue.get_or_default()
Cancel(c) ==
    /\ Routed(c, "cancel")
    /\ incoming' = [incoming EXCEPT ![c].pc = "cancel",
                                    ![c].state = get_or_default(dialogue, c)]
    /\ UNCHANGED <<today, dialogue, handled, nextId, conv>>
    /\ UNCHANGED <<cacheVars, fetchVars, renderVars, cmdVars>>

\* endpoint::cancel in state Daily: the notice is sent in reply to the
\* stored message; when the request fails its error is returned by `?`,
\* before dialogue.exit().
CancelSends(c) ==
    /\ incoming[c].pc = "cancel"
    /\ incoming[c].state.tag = "Daily"
    /\ \E sendOk \in BOOLEAN :
        IF sendOk
        THEN /\ incoming' = [incoming EXCEPT ![c].pc = "exit",
                                             ![c].answer = "cancelled",
                                             ![c].reply_id = incoming[c].state.message_id]
             /\ handled' = handled
        ELSE Ends(c, "cancel", None, 0, "Err")
    /\ UNCHANGED <<today, dialogue, nextId, conv>>
    /\ UNCHANGED <<cacheVars, fetchVars, renderVars, cmdVars>>

\* endpoint::cancel: dialogue.exit(), after the notice or at once in state
\* Noop; it fails when the storage holds nothing for the chat.
CancelExits(c) ==
    /\ \/ incoming[c].pc = "exit"
       \/ incoming[c].pc = "cancel" /\ incoming[c].state.tag = "Noop"
    /\ dialogue' = dialogue_exit(dialogue, c)
    /\ Ends(c, "cancel", incoming[c].answer, incoming[c].reply_id,
            IF dialogue[c].some THEN "Ok" ELSE "Err")
    /\ UNCHANGED <<today, nextId, conv>>
    /\ UNCHANGED <<cacheVars, fetchVars, renderVars, cmdVars>>

\* handle_daily_command up to the await of the fetch:
\* dptree::map(dow_to_naive_date) gives the date, and
\* proj::fetch_daily_menu awaits fetcher.fetch_daily_menu(date, canteen).
DowToNaiveDate(c) ==
    /\ Routed(c, "handle_daily_command")
    /\ LET route == schema(incoming[c])
       IN \E second \in ClockReads(route.day_of_week, today), next_local \in LocalResults :
            LET date == dow_to_naive_date(route.day_of_week, today, second, next_local)
            IN /\ date.tag = "Ok"
               /\ incoming' = [incoming EXCEPT
                     ![c].pc = "fetch_daily_menu",
                     ![c].reply_id = route.reply_id,
                     ![c].fetch = Some([day_of_week |-> route.day_of_week,
                                        canteen |-> route.canteen,
                                        date |-> date.val, first |-> today])]
               /\ today' = second
    /\ UNCHANGED <<dialogue, handled, nextId, conv>>
    /\ UNCHANGED <<cacheVars, fetchVars, renderVars, cmdVars>>

\* dptree::map(dow_to_naive_date) panics: the task of the handler unwinds
\* before anything is fetched, nothing is sent and the storage is left as
\* it is.
DowToNaiveDateUnwinds(c) ==
    /\ Routed(c, "handle_daily_command")
    /\ LET route == schema(incoming[c])
       IN \E second \in ClockReads(route.day_of_week, today), next_local \in LocalResults :
            /\ dow_to_naive_date(route.day_of_week, today, second, next_local).tag = "Panic"
            /\ today' = second
    /\ Ends(c, "dow_to_naive_date", None, 0, "Panic")
    /\ UNCHANGED <<dialogue, nextId, conv>>
    /\ UNCHANGED <<cacheVars, fetchVars, renderVars, cmdVars>>

\* proj::fetch_daily_menu unwinds, in the extractor or for want of the
\* fetcher it asks the dispatcher for: the task of the handler unwinds with
\* it, nothing is sent and the storage is left as it is.
FetchPanics(c) ==
    /\ incoming[c].pc = "fetch_daily_menu"
    /\ Ends(c, "fetch_daily_menu", None, 0, "Panic")
    /\ UNCHANGED <<today, dialogue, nextId, conv>>
    /\ UNCHANGED <<cacheVars, fetchVars, renderVars, cmdVars>>

\* endpoint::menu_by_date up to its first await: the Menu is rendered
\* (fmt_html writes into a String, which does not fail) and sent in reply
\* to reply_id; when the request fails its error is returned by `?`, before
\* dialogue.reset().
MenuByDate(c) ==
    /\ Fetched(c, "menu_by_date")
    /\ \E sendOk \in BOOLEAN :
        IF sendOk
        THEN /\ incoming' = [incoming EXCEPT ![c].pc = "menu_by_date",
                                             ![c].answer = "menu"]
             /\ handled' = handled
        ELSE Ends(c, "menu_by_date", None, 0, "Err")
    /\ UNCHANGED <<today, dialogue, nextId, conv>>
    /\ UNCHANGED <<cacheVars, fetchVars, renderVars, cmdVars>>

\* endpoint::menu_by_date: dialogue.reset() after the menu went out.
MenuByDateResets(c) ==
    /\ incoming[c].pc = "menu_by_date"
    /\ dialogue' = dialogue_reset(dialogue, c)
    /\ Ends(c, "menu_by_date", incoming[c].answer, incoming[c].reply_id, "Ok")
    /\ UNCHANGED <<today, nextId, conv>>
    /\ UNCHANGED <<cacheVars, fetchVars, renderVars, cmdVars>>

\* endpoint::err_canteen_closed up to its first await: dialogue.reset()
ErrCanteenClosed(c) ==
    /\ Fetched(c, "err_canteen_closed")
    /\ dialogue' = dialogue_reset(dialogue, c)
    /\ incoming' = [incoming EXCEPT ![c].pc = "err_canteen_closed"]
    /\ UNCHANGED <<today, handled, nextId, conv>>
    /\ UNCHANGED <<cacheVars, fetchVars, renderVars, cmdVars>>

\* endpoint::err_canteen_closed: the notice is sent in reply to reply_id.
ErrCanteenClosedSends(c) ==
    /\ incoming[c].pc = "err_canteen_closed"
    /\ SendsLast(c, "err_canteen_closed", "closed", incoming[c].reply_id)
    /\ UNCHANGED <<today, dialogue, nextId, conv>>
    /\ UNCHANGED <<cacheVars, fetchVars, renderVars, cmdVars>>

\* endpoint::generic_failure up to its first await: dialogue.reset()
GenericFailure(c) ==
    /\ Fetched(c, "generic_failure")
    /\ dialogue' = dialogue_reset(dialogue, c)
    /\ incoming' = [incoming EXCEPT ![c].pc = "generic_failure"]
    /\ UNCHANGED <<today, handled, nextId, conv>>
    /\ UNCHANGED <<cacheVars, fetchVars, renderVars, cmdVars>>

\* endpoint::generic_failure: the message is sent in reply to reply_id.
GenericFailureSends(c) ==
    /\ incoming[c].pc = "generic_failure"
    /\ SendsLast(c, "generic_failure", "failure", incoming[c].reply_id)
    /\ UNCHANGED <<today, dialogue, nextId, conv>>
    /\ UNCHANGED <<cacheVars, fetchVars, renderVars, cmdVars>>

\* Midnight passes.
Midnight ==
    /\ today < MaxDay
    /\ today' = today + 1
    /\ UNCHANGED <<dialogue, incoming, handled, nextId, conv>>
    /\ UNCHANGED <<cacheVars, fetchVars, renderVars, cmdVars>>

\* The handler of each chat is a task of its own: between the awaits of
\* one, the other takes its steps and midnight may pass.
NextTg ==
    \/ \E c \in Chats : Receive(c)
    \/ \E c \in Chats : CommandPanics(c)
    \/ \E c \in Chats : CanteenPanics(c)
    \/ \E c \in Chats : NoopHandler(c)
    \/ \E c \in Chats : AskCanteen(c)
    \/ \E c \in Chats : AskCanteenSends(c)
    \/ \E c \in Chats : Cancel(c)
    \/ \E c \in Chats : CancelSends(c)
    \/ \E c \in Chats : CancelExits(c)
    \/ \E c \in Chats : DowToNaiveDate(c)
    \/ \E c \in Chats : DowToNaiveDateUnwinds(c)
    \/ \E c \in Chats : FetchDailyMenu(c)
    \/ \E c \in Chats : FetchPanics(c)
    \/ \E c \in Chats : MenuByDate(c)
    \/ \E c \in Chats : MenuByDateResets(c)
    \/ \E c \in Chats : ErrCanteenClosed(c)
    \/ \E c \in Chats : ErrCanteenClosedSends(c)
    \/ \E c \in Chats : GenericFailure(c)
    \/ \E c \in Chats : GenericFailureSends(c)
    \/ Midnight

SpecTg == InitTg /\ [][NextTg]_vars


\* ================================================================ claims
\* The steps the claims speak of, seen from outside an action.
LookupStep(c) == pc[c] = "lookup" /\ pc'[c] \in {"fetch", "done"}

InsertStep(c) == pc[c] = "insert" /\ pc'[c] = "done"

Cached(k) == k \in KeysOf(cache)

\* The cached key whose latest use (found by a lookup, or put) lies furthest back.
PosIn(r, k) == CHOOSE i \in 1..Len(r) : r[i] = k

LeastRecent(s, r) ==
    CHOOSE k \in KeysOf(s) : \A j \in KeysOf(s) : PosIn(r, j) <= PosIn(r, k)

EntrySet(s) == {s[i] : i \in 1..Len(s)}

\* ---- C1
\* C1 as stated: once a call has succeeded for a key, every later lookup for
\* that key made while now - created <= the freshness window ends the call
\* with the Menu that call served and without a fetch, whatever happened to
\* other keys in between.
C1_Original ==
    [][\A c \in Callers :
         (/\ LookupStep(c)
          /\ lastOk[key[c]] # NoEntry
          /\ now - lastOk[key[c]].created <= cache_fresh_dur)
         => (/\ pc'[c] = "done"
             /\ result'[c] = Ok(lastOk[key[c]].val)
             /\ fetches'[c] = 0)]_vars

\* C1 (amended): once a call has succeeded for a key, every later lookup for
\* that key made while the entry is still in the store and
\* now - created <= the freshness window ends the call with the cached Menu,
\* without a fetch, and leaves the entry as it was.
C1_FreshHit ==
    [][\A c \in Callers :
         (/\ LookupStep(c)
          /\ lastOk[key[c]] # NoEntry
          /\ Cached(key[c])
          /\ now - lastOk[key[c]].created <= cache_fresh_dur)
         => (/\ pc'[c] = "done"
             /\ result'[c] = Ok(lastOk[key[c]].val)
             /\ lastOk[key[c]] = EntryOf(cache, key[c])
             /\ fetches'[c] = 0
             /\ Cached(key[c])'
             /\ EntryOf(cache', key[c]) = EntryOf(cache, key[c]))]_vars

\* A call was answered from the store, without a fetch, on the last second of
\* the window of an entry made at time 0, with the other key cached as well.
C1_Witness ==
    \E c \in Callers :
        /\ pc[c] = "done"
        /\ fetches[c] = 0
        /\ result[c].ok
        /\ Cached(key[c])
        /\ EntryOf(cache, key[c]).created = 0
        /\ now = cache_fresh_dur
        /\ \A k \in Keys : Cached(k)

\* ---- C2
\* C2: a lookup that finds a stale entry (now - created > window) sends the
\* call to the fetcher; the call makes exactly one fetch, and when it returns
\* a Menu its insert has left for the key an entry holding the fetched Menu
\* with a creation time strictly after that of the stale entry.
C2_StaleRefetch ==
    [][\A c \in Callers :
         /\ (/\ LookupStep(c)
             /\ Cached(key[c])
             /\ now - EntryOf(cache, key[c]).created > cache_fresh_dur)
            => (pc'[c] = "fetch" /\ fetches[c] = 0)
         /\ (InsertStep(c) /\ seen[c] >= 0)
            => (/\ fetches[c] = 1
                /\ Cached(key[c])'
                /\ EntryOf(cache', key[c]).val = res[c].val
                /\ EntryOf(cache', key[c]).created = now
                /\ EntryOf(cache', key[c]).created > seen[c]
                /\ result'[c] = Ok(res[c].val))
         /\ (pc[c] # "done" /\ pc'[c] = "done" /\ seen[c] >= 0)
            => (/\ fetches'[c] = 1
                /\ result'[c].ok
                   => (/\ Cached(key[c])'
                       /\ EntryOf(cache', key[c]).val = result'[c].val
                       /\ EntryOf(cache', key[c]).created > seen[c]))]_vars

\* A call that found a stale entry has replaced it by a newer one.
C2_Witness ==
    \E c \in Callers :
        /\ pc[c] = "done"
        /\ seen[c] >= 0
        /\ result[c].ok
        /\ Cached(key[c])
        /\ EntryOf(cache, key[c]).created > seen[c] + cache_fresh_dur
        /\ EntryOf(cache, key[c]).val = result[c].val

\* ---- C3
\* The keys left in a store of capacity 2 by a put of A, a put of B, a get of
\* A and a put of C.
AfterABAC(A, B, C) ==
    KeysOf(LruPut(LruGet(LruPut(LruPut(<<>>, A, NewEntry("m1", 0), 2),
                                B, NewEntry("m1", 0), 2), A),
                  C, NewEntry("m1", 0), 2))

\* C3: an insert of a key that is not cached into a full store evicts exactly
\* the cached key whose latest use lies furthest back, a use being a put or a
\* lookup that found the key in the store; and a store of capacity 2 that is
\* put A, put B, got A and put C holds exactly A and C.
C3_EvictsLeastRecent ==
    /\ \A A, B, C \in AllKeys :
          Cardinality({A, B, C}) = 3 => AfterABAC(A, B, C) = {A, C}
    /\ [][\A c \in Callers :
            (InsertStep(c) /\ ~Cached(key[c]) /\ Len(cache) = Capacity)
            => KeysOf(cache') =
                  (KeysOf(cache) \ {LeastRecent(cache, recent)}) \cup {key[c]}]_vars

\* The store is full and (Academica, 1), the first key ever put, still has
\* its first entry, while (Academica, 2), put after it, is gone, at a time
\* when no entry can be stale yet: a fresh hit of (Academica, 1) saved it,
\* and the insert of (Vita, 1) evicted (Academica, 2).
C3_Witness ==
    /\ Len(cache) = Capacity
    /\ Cached(<<"Academica", 1>>)
    /\ EntryOf(cache, <<"Academica", 1>>) = NewEntry(EarlierMenu, 0)
    /\ ~Cached(<<"Academica", 2>>)
    /\ Cached(<<"Vita", 1>>)
    /\ now <= cache_fresh_dur

\* ---- C4
\* C4: the store never holds more entries than its capacity, which is
\* DEFAULT_CACHE_SIZE (16), and never two entries for one key.
C4_Bounded ==
    /\ Len(cache) <= Capacity
    /\ Capacity = DEFAULT_CACHE_SIZE
    /\ DEFAULT_CACHE_SIZE = 16
    /\ \A i, j \in 1..Len(cache) : cache[i].key = cache[j].key => i = j

\* The store is full after a key has been evicted, while a caller is about to
\* insert.
C4_Witness ==
    /\ Len(cache) = Capacity
    /\ \E k \in Keys : lastOk[k] # NoEntry /\ ~Cached(k)
    /\ \E c \in Callers : pc[c] = "insert"

\* ---- C5
\* C5: a call whose fetch failed returns the fetcher's error itself and its
\* return changes nothing in the store; a lookup changes no key, Menu or
\* creation time; an entry that is stale and is kept is stale after every
\* step; and a lookup that finds a stale entry goes on to the fetcher.
C5_FailureKeepsCache ==
    [][/\ \A c \in Callers :
            /\ (pc[c] = "try" /\ ~res[c].ok /\ pc'[c] # "try")
               => (/\ pc'[c] = "done"
                   /\ result'[c] = res[c]
                   /\ res[c].val \in FetchErrors
                   /\ cache' = cache)
            /\ (pc[c] = "fetch" /\ pc'[c] # "fetch") => cache' = cache
            /\ LookupStep(c) => EntrySet(cache') = EntrySet(cache)
            /\ (LookupStep(c) /\ Cached(key[c])
                  /\ now - EntryOf(cache, key[c]).created > cache_fresh_dur)
               => pc'[c] = "fetch"
       /\ \A k \in AllKeys :
            (/\ Cached(k)
             /\ Cached(k)'
             /\ EntryOf(cache', k) = EntryOf(cache, k)
             /\ now - EntryOf(cache, k).created > cache_fresh_dur)
            => now' - EntryOf(cache', k).created > cache_fresh_dur]_vars

\* A call that found a stale entry has failed, and that entry is still cached.
C5_Witness ==
    \E c \in Callers :
        /\ pc[c] = "done"
        /\ ~result[c].ok
        /\ seen[c] >= 0
        /\ Cached(key[c])
        /\ EntryOf(cache, key[c]).created = seen[c]
        /\ now - seen[c] > cache_fresh_dur

\* ---- C6
\* C6: with the Mutex poisoned the store is never changed again; a call that
\* fails to lock at lookup goes on to the fetcher, a call that fails to lock
\* at insertion returns the fetched Menu, and every error a call returns is
\* the one its own fetch produced.
C6_PoisonFallsBack ==
    [][/\ poisoned => (cache' = cache /\ lockHolder' = 0)
       /\ \A c \in Callers :
            /\ (poisoned /\ pc[c] = "lookup_lock" /\ pc'[c] # "lookup_lock")
               => pc'[c] = "fetch"
            /\ (poisoned /\ pc[c] = "insert_lock" /\ pc'[c] # "insert_lock")
               => (pc'[c] = "done" /\ result'[c] = Ok(res[c].val))
            /\ (pc[c] # "done" /\ pc'[c] = "done" /\ ~result'[c].ok)
               => (/\ fetches[c] = 1
                   /\ result'[c] = res[c]
                   /\ res[c].val \in FetchErrors)]_vars

\* With the Mutex poisoned, a call has fetched a Menu and returned it, and the
\* key is not in the store.
C6_Witness ==
    \E c \in Callers :
        /\ poisoned
        /\ pc[c] = "done"
        /\ result[c].ok
        /\ fetches[c] = 1
        /\ ~Cached(key[c])

\* ---- C7
\* C7: at most one caller is inside the store (in the lookup or the insert
\* closure) at a time, and it is the lock holder; the store changes only in a
\* step of the lock holder, which releases the lock; a caller whose fetch is
\* in progress or has just returned does not hold the lock.
InStore(c) == pc[c] \in {"lookup", "insert"}

C7_LockDiscipline ==
    /\ \A c, d \in Callers : (InStore(c) /\ InStore(d)) => c = d
    /\ \A c \in Callers : InStore(c) <=> lockHolder = c
    /\ \A c \in Callers : pc[c] \in {"fetch", "try"} => lockHolder # c

C7_Serialized ==
    [][/\ C7_LockDiscipline
       /\ C7_LockDiscipline'
       /\ (cache' # cache \/ recent' # recent)
          => (lockHolder \in Callers /\ InStore(lockHolder) /\ lockHolder' = 0)]_vars

\* One caller is inside the store while the other's fetch is in progress.
C7_Witness ==
    \E c, d \in Callers :
        /\ c # d
        /\ pc[c] = "fetch"
        /\ pc[d] = "insert"
        /\ lockHolder = d

\* ---- C8
\* C8: when a caller inserts for a key for which another caller's call has
\* already fetched and inserted, the store then holds the Menu of the later
\* one, and each call returns the Menu it fetched itself.
C8_LastWriterWins ==
    [][\A a, b \in Callers :
         (/\ a # b
          /\ InsertStep(b)
          /\ key[a] = key[b]
          /\ pc[a] = "done"
          /\ fetches[a] = 1
          /\ result[a].ok)
         => (/\ fetches[b] = 1
             /\ Cached(key[b])'
             /\ EntryOf(cache', key[b]).val = res[b].val
             /\ result'[b] = Ok(res[b].val)
             /\ result'[a] = Ok(res[a].val))]_vars

\* Both callers missed the same key, both fetched, they got different Menus,
\* and caller 2's is the one stored.
C8_Witness ==
    /\ pc[1] = "done" /\ pc[2] = "done"
    /\ key[1] = key[2]
    /\ fetches[1] = 1 /\ fetches[2] = 1
    /\ seen[1] = -1 /\ seen[2] = -1
    /\ result[1].ok /\ result[2].ok
    /\ result[1] # result[2]
    /\ Cached(key[2])
    /\ EntryOf(cache, key[2]).val = result[2].val

\* ---- C9
\* C9: a key becomes cached, or its entry changes, only in the insert of a
\* call for that key whose fetch succeeded; a cached key stops being cached
\* only in the insert of another, uncached key into a full store, and it is
\* then the least recently used key. No lookup and no passing of time
\* removes an entry.
C9_EntryLifecycle ==
    [][\A k \in AllKeys :
         /\ ((~Cached(k) /\ Cached(k)')
             \/ (Cached(k) /\ Cached(k)' /\ EntryOf(cache', k) # EntryOf(cache, k)))
            => \E c \in Callers :
                  /\ InsertStep(c)
                  /\ key[c] = k
                  /\ res[c].ok
                  /\ fetches[c] = 1
                  /\ EntryOf(cache', k).val = res[c].val
         /\ (Cached(k) /\ ~Cached(k)')
            => \E c \in Callers :
                  /\ InsertStep(c)
                  /\ key[c] # k
                  /\ ~Cached(key[c])
                  /\ Len(cache) = Capacity
                  /\ k = LeastRecent(cache, recent)]_vars

\* A key has been evicted, and a stale entry is still in the store after a
\* lookup found it.
C9_Witness ==
    /\ \E k \in Keys : lastOk[k] # NoEntry /\ ~Cached(k)
    /\ \E c \in Callers :
          /\ seen[c] >= 0
          /\ Cached(key[c])
          /\ EntryOf(cache, key[c]).created = seen[c]
          /\ now - seen[c] > cache_fresh_dur

\* ---- C10
\* A section carries a date when any text under its title holds, anywhere, a
\* DD.MM.YYYY that is that calendar date.
Carries(sec, day) ==
    \E i \in 1..Len(sec.titles) :
        \E j \in 1..Len(sec.titles[i]) :
            /\ DateRegexAt(sec.titles[i], j)
            /\ ParseDate(SubSeq(sec.titles[i], j, j + 9)) = Some(day)

NoSectionCarries(doc, day) == \A i \in 1..Len(doc) : ~Carries(doc[i], day)

\* C10: for every fetched document in which no day-section carries the
\* requested date, fetch_daily_menu returns
\* Err(CanteenClosed{canteen, date}) with the requested canteen and date.
C10_ClosedWithoutSection ==
    (hpc = "done" /\ NoSectionCarries(page, want.day))
    => out = XErr(CanteenClosed(want.canteen, want.day))

\* CanteenClosed came out of a document whose sections all hold a menu
\* container that could be parsed, none of them for the requested date, one
\* of them without any date.
C10_Witness ==
    /\ hpc = "done"
    /\ Len(page) = 2
    /\ \A i \in 1..Len(page) : \E n \in 1..Len(page[i].children) : IsDiv(page[i].children[n])
    /\ page[1].titles = <<>>
    /\ page[2].titles # <<>>
    /\ DateRegexFind(page[2].titles[1]).some
    /\ NoSectionCarries(page, want.day)
    /\ out.tag = "Err"
    /\ out.error.kind = "CanteenClosed"
    /\ out.error.canteen = want.canteen
    /\ out.error.date = want.day

\* ---- C11
\* The menu container of the requested day: the first div among the children
\* of the sections dated `day`.
DayBlocks(doc, day) == SelectSeq(FlatChildren(doc, day), IsDiv)

\* The container has, among its children, a table bearing the marker.
HasTable(block, marker) ==
    \E i \in 1..Len(block.children) :
        /\ block.children[i].tag = "table"
        /\ \E j \in 1..Len(block.children[i].classes) :
              AsciiLower(block.children[i].classes[j]) = marker

\* C11: when a section is dated as requested and has a menu container, a
\* container without a dish table gives Err(ElementNotFound{"table",
\* ["menues"]}), and one with a dish table but without an extras table gives
\* Err(ElementNotFound{"table", ["extras"]}), whatever the rows of the tables
\* it has; neither gives CanteenClosed.
C11_MissingTable ==
    (hpc = "done" /\ DayBlocks(page, want.day) # <<>>)
    => LET block == DayBlocks(page, want.day)[1] IN
       /\ ~HasTable(block, "menues")
          => out = XErr(ElementNotFound("table", <<"menues">>))
       /\ (HasTable(block, "menues") /\ ~HasTable(block, "extras"))
          => out = XErr(ElementNotFound("table", <<"extras">>))

\* The container of the requested day has a dish table, whose only row has a
\* blank category, and no extras table: the missing extras table is reported.
C11_Witness ==
    /\ hpc = "done"
    /\ DayBlocks(page, want.day) # <<>>
    /\ HasTable(DayBlocks(page, want.day)[1], "menues")
    /\ ~HasTable(DayBlocks(page, want.day)[1], "extras")
    /\ DayBlocks(page, want.day)[1].children[1].rows = <<RowBlankCategory>>
    /\ out = XErr(ElementNotFound("table", <<"extras">>))

\* ---- C12
\* The dish table and the extras table that parse_menu picks in a container.
DayTables(doc, day) ==
    FoldTables(DayBlocks(doc, day)[1].children, <<NoneOpt, NoneOpt>>)

BothTables(doc, day) ==
    /\ DayBlocks(doc, day) # <<>>
    /\ DayTables(doc, day)[1].some
    /\ DayTables(doc, day)[2].some

DishRowsOf(doc, day) == DayTables(doc, day)[1].val.rows

ExtraRowsOf(doc, day) == DayTables(doc, day)[2].val.rows

\* The number of dishes in a category -> dishes mapping.
RECURSIVE SumLen(_, _)
SumLen(map, ks) ==
    IF ks = {} THEN 0
    ELSE LET k == CHOOSE k \in ks : TRUE IN Len(map[k]) + SumLen(map, ks \ {k})

\* A row without its category element or its description element, and an
\* extras row without its description cell.
SomeRowLacksElement(doc, day) ==
    \/ \E i \in 1..Len(DishRowsOf(doc, day)) :
          \/ ~DishRowsOf(doc, day)[i].category.some
          \/ ~DishRowsOf(doc, day)[i].descr.some
    \/ \E i \in 1..Len(ExtraRowsOf(doc, day)) :
          ~ExtraRowsOf(doc, day)[i].desc.some

\* C12: when the container of the requested day has both tables, fetch_daily_menu
\* returns an Err if any dish row lacks its category or description element or
\* any extras row lacks its description cell, wherever that row stands; and
\* when it returns a Menu, no row lacks an element and the Menu holds as many
\* dishes as the dish table has rows and as many extras as the extras table
\* has rows.
C12_AllOrNothing ==
    (hpc = "done" /\ BothTables(page, want.day))
    => /\ SomeRowLacksElement(page, want.day) => out.tag = "Err"
       /\ out.tag = "Ok"
          => /\ ~SomeRowLacksElement(page, want.day)
             /\ SumLen(out.val.dishes, DOMAIN out.val.dishes)
                  = Len(DishRowsOf(page, want.day))
             /\ Len(out.val.extras) = Len(ExtraRowsOf(page, want.day))

\* ---- C13
\* The six class markers that stand for a Label.
RecognizedMarkers == {"Fisch", "OLV", "vegan", "Geflügel", "Schwein", "Rind"}

\* The category a row is filed under, and the place of row i among the rows
\* of its category.
RowCategory(row) == SplitAsciiWhitespace(Trim(row.category.val[1]))[1]

PlaceOf(rows, i) ==
    Cardinality({j \in 1..i : RowCategory(rows[j]) = RowCategory(rows[i])})

\* The Dish that a returned Menu holds for row i of the dish table.
DishOfRow(m, rows, i) == m.dishes[RowCategory(rows[i])][PlaceOf(rows, i)]

\* A row whose description text is "Gulasch | Rind, Sauce, Kartoffeln" and
\* whose classes hold no recognized marker.
IsGulaschRow(row) ==
    /\ row.descr.some
    /\ Concat(row.descr.val) = Str_GulaschFull
    /\ \A j \in 1..Len(row.classes) : row.classes[j] \notin RecognizedMarkers

\* C13 as stated: in a returned Menu, the Dish of such a row is named
\* "Gulasch", has the ingredients ["Rind", "Sauce", "Kartoffeln"] and no labels.
C13_Original ==
    (hpc = "done" /\ out.tag = "Ok")
    => \A i \in 1..Len(DishRowsOf(page, want.day)) :
          IsGulaschRow(DishRowsOf(page, want.day)[i])
          => LET dish == DishOfRow(out.val, DishRowsOf(page, want.day), i) IN
             /\ dish.name = <<"G", "u", "l", "a", "s", "c", "h">>
             /\ dish.ingreds = << <<"R", "i", "n", "d">>,
                                  <<"S", "a", "u", "c", "e">>,
                                  <<"K", "a", "r", "t", "o", "f", "f", "e", "l", "n">> >>
             /\ dish.labels = <<>>

\* C13 (amended): in a returned Menu, the Dish of such a row is named
\* "Gulasch", has the one ingredient "Rind, Sauce, Kartoffeln" (the text is
\* split at "|" only) and no labels.
C13_GulaschDish ==
    (hpc = "done" /\ out.tag = "Ok")
    => \A i \in 1..Len(DishRowsOf(page, want.day)) :
          IsGulaschRow(DishRowsOf(page, want.day)[i])
          => LET dish == DishOfRow(out.val, DishRowsOf(page, want.day), i) IN
             /\ dish.name = <<"G", "u", "l", "a", "s", "c", "h">>
             /\ dish.ingreds = <<Str_RindSauce>>
             /\ dish.labels = <<>>

\* A Menu was returned for a dish table whose second row is such a row, after
\* another row of the same category.
C13_Witness ==
    /\ hpc = "done"
    /\ out.tag = "Ok"
    /\ Len(DishRowsOf(page, want.day)) = 2
    /\ IsGulaschRow(DishRowsOf(page, want.day)[2])
    /\ ~IsGulaschRow(DishRowsOf(page, want.day)[1])
    /\ Len(out.val.dishes[Str_Klassiker]) = 2

\* ---- C14
\* Lines set off with ", ".
RECURSIVE CommaList(_)
CommaList(ls) ==
    IF Len(ls) = 1 THEN ls[1]
    ELSE ls[1] \o <<",", " ">> \o CommaList(Tail(ls))

\* "A, B oder C" of the lines A, B, C (two lines at least), each trimmed.
OderList(lines) ==
    CommaList([i \in 1..(Len(lines) - 1) |-> Trim(lines[i])])
      \o <<" ", "o", "d", "e", "r", " ">> \o Trim(lines[Len(lines)])

Str_PommesReisSalat == <<"P", "o", "m", "m", "e", "s", ",", " ", "R", "e", "i", "s", " ", "o", "d", "e", "r", " ", "S", "a", "l", "a", "t">>

\* C14: in a returned Menu, the extra of every extras row whose description
\* cell has two or more text lines is described by the trimmed lines but the
\* last joined with ", ", then " oder ", then the trimmed last line.
C14_OderJoin ==
    (hpc = "done" /\ out.tag = "Ok")
    => \A i \in 1..Len(ExtraRowsOf(page, want.day)) :
          Len(ExtraRowsOf(page, want.day)[i].desc.val) >= 2
          => out.val.extras[i].extra
               = OderList(ExtraRowsOf(page, want.day)[i].desc.val)

\* A Menu was returned whose second extra comes from the lines " Pommes ",
\* "Reis", "Salat" and reads "Pommes, Reis oder Salat", after an extra of two
\* lines.
C14_Witness ==
    /\ hpc = "done"
    /\ out.tag = "Ok"
    /\ Len(ExtraRowsOf(page, want.day)) = 2
    /\ Len(ExtraRowsOf(page, want.day)[1].desc.val) = 2
    /\ ExtraRowsOf(page, want.day)[2].desc.val = <<Str_PommesPad, Str_Reis, Str_Salat>>
    /\ out.val.extras[2].extra = Str_PommesReisSalat

\* ---- C15
\* C15: in a returned Menu, the extra of every extras row whose description
\* cell has exactly one text line is described by that line, trimmed, and
\* nothing else.
C15_SingleLine ==
    (hpc = "done" /\ out.tag = "Ok")
    => \A i \in 1..Len(ExtraRowsOf(page, want.day)) :
          Len(ExtraRowsOf(page, want.day)[i].desc.val) = 1
          => out.val.extras[i].extra
               = Trim(ExtraRowsOf(page, want.day)[i].desc.val[1])

\* ---- C16
\* The Menu without its categories that have no dish.
WithoutEmpty(m) ==
    MenuNew([k \in {j \in DOMAIN m.dishes : m.dishes[j] # <<>>} |-> m.dishes[k]],
            m.extras)

\* C16: the rendering of every Menu is the rendering of the same Menu with
\* its zero-dish categories removed.
C16_EmptyOmitted ==
    rpc = "done" => html = fmt_html(WithoutEmpty(shown))

\* ---- C17
\* Lexicographic order of two keys, character by character.
RECURSIVE LexBefore(_, _)
LexBefore(a, b) ==
    IF b = <<>> THEN FALSE
    ELSE IF a = <<>> THEN TRUE
    ELSE IF Head(a) = Head(b) THEN LexBefore(Tail(a), Tail(b))
    ELSE OrdOf(Head(a)) < OrdOf(Head(b))

\* The lines of a text: the pieces between its "\n" characters.
LinesOf(text) ==
    LET at == <<0>> \o SelectSeq([i \in 1..Len(text) |-> i],
                                 LAMBDA i : text[i] = "\n")
                   \o <<Len(text) + 1>>
    IN [n \in 1..(Len(at) - 1) |-> SubSeq(text, at[n] + 1, at[n + 1] - 1)]

\* The categories of the rows, and the dishes of the rows of one category in
\* row order.
FedCats == {fed[i][1] : i \in 1..Len(fed)}

RECURSIVE FedOf(_, _)
FedOf(rows, k) ==
    IF rows = <<>> THEN <<>>
    ELSE (IF Head(rows)[1] = k THEN <<Head(rows)[2]>> ELSE <<>>)
         \o FedOf(Tail(rows), k)

\* A line that is the heading of category k: "<em>k</em>", alone or followed
\* by a blank and an emoji.
IsHeadingFor(line, k) ==
    LET h == Str_EmOpen \o k \o Str_EmClose IN
    /\ Len(line) >= Len(h)
    /\ SubSeq(line, 1, Len(h)) = h
    /\ (Len(line) = Len(h) \/ line[Len(h) + 1] = " ")

HeadingAt(lines, k) == CHOOSE i \in 1..Len(lines) : IsHeadingFor(lines[i], k)

\* C17: in the rendering of a Menu built from rows, every category of the
\* rows has one heading line; the headings stand in lexicographic order of
\* the keys, whatever the order of the rows; the lines after a heading are
\* the dishes of that category in row order; and the last lines are the
\* extras, in order, after every heading and dish.
C17_RenderOrder ==
    rpc = "done"
    => LET lines == LinesOf(html)
           nl == Len(lines)
           ne == Len(shown.extras)
           at == [k \in FedCats |-> HeadingAt(lines, k)]
       IN /\ \A k \in FedCats :
                Cardinality({i \in 1..nl : IsHeadingFor(lines[i], k)}) = 1
          /\ \A k1, k2 \in FedCats : LexBefore(k1, k2) => at[k1] < at[k2]
          /\ \A k \in FedCats :
                /\ at[k] + Len(FedOf(fed, k)) <= nl - ne
                /\ \A j \in 1..Len(FedOf(fed, k)) :
                      lines[at[k] + j] = dish_fmt_html(FedOf(fed, k)[j])
          /\ \A j \in 1..ne :
                lines[nl - ne + j] = extra_fmt_html(shown.extras[j])

\* Rendered: a Menu of three rows in the order Wok, Burger, Wok, the two Wok
\* dishes differing, with two extras, one of them of category "Wok".
C17_Witness ==
    /\ rpc = "done"
    /\ Len(fed) = 3
    /\ fed[1][1] = Str_Wok
    /\ fed[2][1] = Str_Burger
    /\ fed[3][1] = Str_Wok
    /\ fed[1][2] # fed[3][2]
    /\ Len(shown.extras) = 2
    /\ HeadingAt(LinesOf(html), Str_Burger) < HeadingAt(LinesOf(html), Str_Wok)

\* ---- C18
\* The command word of an input (the text before the first blank), and what
\* follows the word.
WordOf(input) ==
    IF \E i \in 1..Len(input) : input[i] = " "
    THEN SubSeq(input, 1, (CHOOSE i \in 1..Len(input) :
                              input[i] = " " /\ \A j \in 1..(i - 1) : input[j] # " ") - 1)
    ELSE input

AfterWord(input) == SubSeq(input, Len(WordOf(input)) + 1, Len(input))

HasSuffix(input) == \E i \in 1..Len(WordOf(input)) : WordOf(input)[i] = "@"

FirstAt(w) == CHOOSE i \in 1..Len(w) : w[i] = "@" /\ \A j \in 1..(i - 1) : w[j] # "@"

\* The text after the first "@" of the command word: the name of the
\* suffix of a word with one "@".
AfterAt(input) == SubSeq(WordOf(input), FirstAt(WordOf(input)) + 1, Len(WordOf(input)))

\* The command word has one "@" and no more.
OneAt(input) == \A i \in 1..Len(AfterAt(input)) : AfterAt(input)[i] # "@"

\* The second piece of the word split at each "@": the text after the first
\* "@", up to the next "@" or the end of the word.
RECURSIVE UpToAt(_)
UpToAt(s) == IF s = <<>> \/ Head(s) = "@" THEN <<>> ELSE <<Head(s)>> \o UpToAt(Tail(s))

SuffixName(input) == UpToAt(AfterAt(input))

\* The input without the suffix of its command word.
WithoutSuffix(input) ==
    SubSeq(WordOf(input), 1, FirstAt(WordOf(input)) - 1) \o AfterWord(input)

\* Equal but for the case of ASCII letters.
SameButCase(a, b) ==
    /\ Len(a) = Len(b)
    /\ \A i \in 1..Len(a) :
          \/ a[i] = b[i]
          \/ \E n \in 1..Len(UpperChars) :
                {a[i], b[i]} = {UpperChars[n], LowerChars[n]}

\* C18: for an input whose command word has a suffix "@name", Command::parse
\* returns what it returns for the input without the suffix when name is the
\* bot's username but for the case of ASCII letters, and
\* Err(WrongBotName(name)) otherwise; "/heute@mybotname" for the bot
\* "mybotname" gives Daily with day Today and no canteen. The name is all
\* that follows the "@" of a word with one "@"; in a word with more of them
\* it is taken as the piece between the first two, and the same holds.
C18_BotNameSuffix ==
    cpc = "done"
    => /\ (HasSuffix(cmd.input) /\ OneAt(cmd.input))
          => parsed = IF SameButCase(AfterAt(cmd.input), cmd.bot_username)
                      THEN Command_parse(WithoutSuffix(cmd.input), cmd.bot_username)
                      ELSE XErr([kind |-> "WrongBotName",
                                 name |-> AfterAt(cmd.input)])
       /\ (HasSuffix(cmd.input) /\ ~OneAt(cmd.input))
          => parsed = IF SameButCase(SuffixName(cmd.input), cmd.bot_username)
                      THEN Command_parse(WithoutSuffix(cmd.input), cmd.bot_username)
                      ELSE XErr([kind |-> "WrongBotName",
                                 name |-> SuffixName(cmd.input)])
       /\ (cmd.input = <<"/", "h", "e", "u", "t", "e", "@", "m", "y", "b", "o", "t", "n", "a", "m", "e">> /\ cmd.bot_username = <<"m", "y", "b", "o", "t", "n", "a", "m", "e">>)
          => parsed = XOk([cmd |-> "Daily", day_of_week |-> "Today",
                           canteen |-> NoneOpt])

\* Parsed: "/morgen@MyBotName vita" for the bot "mybotname", giving Daily with
\* day Tomorrow and the canteen Vita.
C18_Witness ==
    /\ cpc = "done"
    /\ cmd.bot_username = <<"m", "y", "b", "o", "t", "n", "a", "m", "e">>
    /\ cmd.input = <<"/", "m", "o", "r", "g", "e", "n", "@", "M", "y", "B", "o", "t", "N", "a", "m", "e", " ", "v", "i", "t", "a">>
    /\ parsed = XOk([cmd |-> "Daily", day_of_week |-> "Tomorrow",
                     canteen |-> Some("Vita")])

\* ---- C19
\* A row whose category label is missing, has no text node, or whose text is
\* whitespace only.
NoCategoryToken(row) ==
    \/ ~row.category.some
    \/ row.category.val = <<>>
    \/ \A i \in 1..Len(row.category.val[1]) :
          row.category.val[1][i] \in Whitespace

\* The text up to the first whitespace character.
RECURSIVE UpToBlank(_)
UpToBlank(s) ==
    IF s = <<>> \/ Head(s) \in Whitespace THEN <<>>
    ELSE <<Head(s)>> \o UpToBlank(Tail(s))

\* The first whitespace-delimited token of a text that has one.
RECURSIVE FirstToken(_)
FirstToken(s) ==
    IF Head(s) \in Whitespace THEN FirstToken(Tail(s)) ELSE UpToBlank(s)

\* C19: when the container of the requested day has both tables, a dish row
\* without a category token makes fetch_daily_menu return an Err; and in a
\* returned Menu every row's dish is filed under the first
\* whitespace-delimited token of the row's category label text.
C19_CategoryToken ==
    (hpc = "done" /\ BothTables(page, want.day))
    => /\ (\E i \in 1..Len(DishRowsOf(page, want.day)) :
              NoCategoryToken(DishRowsOf(page, want.day)[i]))
          => out.tag = "Err"
       /\ out.tag = "Ok"
          => \A i \in 1..Len(DishRowsOf(page, want.day)) :
                LET row == DishRowsOf(page, want.day)[i]
                    cat == FirstToken(row.category.val[1])
                IN /\ cat \in DOMAIN out.val.dishes
                   /\ \E j \in 1..Len(out.val.dishes[cat]) :
                         out.val.dishes[cat][j].name
                           = Trim(Split(Concat(row.descr.val), "|")[1])

\* ---- C20
\* The key the store holds as most recently used.
MostRecent(s, k) == s # <<>> /\ s[1].key = k

\* C20: a key becomes the most recently used one only in a lookup that finds
\* its entry fresh or in an insert for it; so a call that finds a stale entry
\* and whose fetch fails leaves the order of eviction as it was.
C20_StaleKeepsOrder ==
    [][\A k \in AllKeys :
         (MostRecent(cache', k) /\ ~MostRecent(cache, k))
         => \E c \in Callers :
               /\ key[c] = k
               /\ \/ InsertStep(c)
                  \/ /\ LookupStep(c)
                     /\ Cached(k)
                     /\ now - EntryOf(cache, k).created <= cache_fresh_dur]_vars

\* ---------------------------------------------------------------- C21
\* The handler of chat c has ended and the chat has sent nothing since.
Settled(c) == handled[c].endpoint # None

\* The dialogue state of chat c now.
StateNow(c) == get_or_default(dialogue, c)

\* The message chat c's handler ended on is a command, and which: what
\* Command::parse gives on its text.
HandledCommand(c) == CommandOf[handled[c].message.text]

\* That message names a canteen, and which: what the canteen's parser gives
\* on its trimmed text.
HandledCanteen(c) == CanteenOf[handled[c].message.text]

\* The date is what the day converts to on the date first, for some later
\* read of the clock.
ConvertedFrom(dow, first, date) ==
    \E second \in LaterReads(first), next_local \in LocalResults :
        LET converted == NaiveDate_from(dow, first, second, next_local)
        IN converted.tag = "Ok" /\ converted.val = date

\* C21: a Daily command without a canteen leaves the chat's dialogue in
\* Daily{message_id, args} with the command's message id and day and asks
\* for a canteen in reply to it; a message that names a canteen, received in
\* state Daily, fetches the menu of the stored day and the named canteen for
\* a date converted from that day; once the menu, the canteen-closed notice
\* or the generic failure message has been sent the state is Noop, and so it
\* is after Cancel.
C21_Dialogue ==
    \A c \in Chats : Settled(c) =>
        /\ (HandledCommand(c).some /\ HandledCommand(c).val.cmd = "Daily"
                                   /\ ~HandledCommand(c).val.canteen.some)
              => /\ handled[c].endpoint = "ask_canteen"
                 /\ StateNow(c).tag = "Daily"
                 /\ StateNow(c).message_id = handled[c].message.id
                 /\ StateNow(c).args = [day_of_week |-> HandledCommand(c).val.day_of_week,
                                        canteen |-> NoneOpt]
                 /\ \/ handled[c].answer = "ask" /\ handled[c].reply_to = handled[c].message.id
                    \/ handled[c].result = "Err" /\ handled[c].answer = None
        /\ (handled[c].state.tag = "Daily" /\ HandledCanteen(c).some)
              => /\ handled[c].fetch.some
                 /\ handled[c].fetch.val.day_of_week = handled[c].state.args.day_of_week
                 /\ handled[c].fetch.val.canteen = HandledCanteen(c).val
                 /\ ConvertedFrom(handled[c].state.args.day_of_week,
                                  handled[c].fetch.val.first, handled[c].fetch.val.date)
                 /\ handled[c].answer # None
                        => handled[c].reply_to = handled[c].state.message_id
        /\ (handled[c].answer \in {"menu", "closed", "failure"})
              => /\ handled[c].fetch.some
                 /\ StateNow(c).tag = "Noop"
        /\ (handled[c].endpoint = "cancel") => StateNow(c).tag = "Noop"


\* ---------------------------------------------------------------- C22
\* num_days_from_monday of the weekdays DayOfWeek names
NamedWeekday ==
    [d \in {"Monday", "Tuesday", "Wednesday", "Thursday", "Friday"} |->
        CASE d = "Monday" -> 0 [] d = "Tuesday" -> 1 [] d = "Wednesday" -> 2
          [] d = "Thursday" -> 3 [] d = "Friday" -> 4]

\* The current day of a conversion: the date of its latest read of the clock.
ConvToday == conv.second

\* C22: a conversion of a DayOfWeek yields a date, which is at least today
\* and at most today plus six days; Today converts to today, Tomorrow to
\* today plus one, and a named weekday to the first date on or after today
\* that falls on it, so to today when today is that weekday.
C22_DayToDate ==
    (conv.pc \in {"done", "panicked"}) =>
        /\ conv.pc = "done"
        /\ ConvToday <= conv.date /\ conv.date <= ConvToday + 6
        /\ conv.first <= conv.date /\ conv.date <= conv.first + 6
        /\ (conv.dow = "Today") => conv.date = ConvToday
        /\ (conv.dow = "Tomorrow") => conv.date = ConvToday + 1
        /\ (conv.dow \in DOMAIN NamedWeekday) =>
              /\ conv.first = ConvToday
              /\ conv.date % 7 = NamedWeekday[conv.dow]
              /\ \A earlier \in ConvToday..(conv.date - 1) :
                    earlier % 7 # NamedWeekday[conv.dow]
              /\ (ConvToday % 7 = NamedWeekday[conv.dow]) => conv.date = ConvToday
====
